---- MODULE Spec2Model ----
(***************************************************************************)
(* Model of the rd-agent control-plane runner (rd-agent/src/cmd.rs):       *)
(* RunnerData (state, benchmark handles, reference-app set, side runner,   *)
(* balloon, config-file snapshots) and the reconcile loop Runner::run.     *)
(*                                                                         *)
(* Every handler of RunnerData is an operator from the runner data (a      *)
(* record `d`) and the outcomes of the fallible calls it makes (a record   *)
(* `in`) to the new runner data and the handler's return value.  The       *)
(* actions of the specification are the steps of Runner::run, which call   *)
(* the handlers, and the environment (the supervisor changing the status   *)
(* of a benchmark unit, the reporter setting the program-exiting flag).    *)
(* External writes to a config file are seen by the program only when      *)
(* maybe_reload reads the file, so they are inputs of maybe_reload.        *)
(***************************************************************************)
EXTENDS Integers, Naturals, Sequences, FiniteSets, TLC

\* ---------------------------------------------------------------- bounds
\* Largest cmd_seq an external writer gives the command file.
MaxCmdSeq == 1
\* Largest benchmark request / completion sequence number.
MaxBenchSeq == 1
\* Base reports the reporter builds (iterations of run_inner that get past
\* the sleep).
MaxTicks == 4
\* Failed calls of the aggregators (usage update, commit, symlink) and failed
\* base reports.
MaxFail == 1
\* crate::misc::BCC_RETRIES, the retry budget of a latency reader.
BCC_RETRIES == 2
\* Seconds the one-minute aggregator is fed for.
MaxSeconds == 125
MaxRetention == 1
StartMinute == 3

\* ------------------------------------------------------------ value sets
\* rd_agent_intf::RunnerState
RunnerState == {"Idle", "Running", "BenchHashd", "BenchIoCost"}

\* systemd::UnitState as the supervisor reports it on refresh().
UnitState == {"Running", "Exited", "Failed", "NotFound"}

\* Option<TransientService>: "None", or the unit's status at the supervisor.
Handle == {"None"} \cup UnitState

\* Values cmd.bench_hashd_balloon_size takes (GiB).
BalloonSizes == {4}
\* Values cmd.balloon_ratio takes, in percent.
BalloonRatios == {50}
\* Values cmd.sideloader.cpu_headroom takes, in percent.
CpuHeadrooms == {10, 20}

\* total_memory() of the host (GiB).
total_memory == 7

\* The part of rd_agent_intf::Cmd the runner reads.
CmdSet ==
    [cmd_seq : 0..MaxCmdSeq,
     bench_hashd_seq : 0..MaxBenchSeq,
     bench_iocost_seq : 0..MaxBenchSeq,
     bench_hashd_balloon_size : BalloonSizes,
     balloon_ratio : BalloonRatios,
     cpu_headroom : CpuHeadrooms]

\* The part of BenchKnobs the runner reads and writes.
BenchSet == [hashd_seq : 0..MaxBenchSeq, iocost_seq : 0..MaxBenchSeq]

\* The part of Config the runner reads.
CfgSet ==
    { [force_running |-> FALSE, enforce_mem |-> TRUE, enforce_oomd |-> TRUE,
       enforce_all |-> TRUE, bypass |-> FALSE],
      [force_running |-> TRUE, enforce_mem |-> TRUE, enforce_oomd |-> TRUE,
       enforce_all |-> TRUE, bypass |-> FALSE],
      [force_running |-> TRUE, enforce_mem |-> FALSE, enforce_oomd |-> FALSE,
       enforce_all |-> FALSE, bypass |-> TRUE] }

\* What maybe_reload finds in a file: NoChange (the file did not change, or
\* failed to parse), or Changed(v), the new content v.
NoChange == <<>>

Changed(v) == <<v>>

\* ------------------------------------------------------------- the state
VARIABLES
    cfg,            \* RunnerData.cfg
    state,          \* RunnerData.state
    warned_bench,   \* RunnerData.warned_bench
    warned_init,    \* RunnerData.warned_init
    force_apply,    \* RunnerData.force_apply
    bench_hashd,    \* RunnerData.bench_hashd
    bench_iocost,   \* RunnerData.bench_iocost
    hashd_active,   \* RunnerData.hashd_set has running reference-app services
    side_active,    \* RunnerData.side_runner has been applied and not stopped
    cmd,            \* sobjs.cmd_file.data
    bench,          \* sobjs.bench_file.data
    bench_disk,     \* the bench file as last loaded or saved
    cmd_ack,        \* sobjs.cmd_ack_file.data.cmd_seq
    cmd_ack_disk,   \* the cmd_ack file as last committed
    oomd_running,   \* sobjs.oomd is running
    sideloader_running, \* sobjs.sideloader.svc.unit.state == Running
    slice_disabled, \* sobjs.slice_file.data.controlls_disabled(instance_seq)
    acts,           \* the calls the last handler call made, in order
    last_op,        \* the last handler called
    last_ret,       \* what it returned
    pc,             \* Runner::run: the position in the loop
    cmd_pending,    \* Runner::run: local cmd_pending
    verify_pending, \* Runner::run: local verify_pending
    passes,         \* Runner::run: apply_cmd passes made in this iteration
    it_start,       \* the runner data at the start of this iteration
    prog_exiting    \* the global program-exiting flag

dvars == <<state, warned_bench, warned_init, force_apply, bench_hashd,
           bench_iocost, hashd_active, side_active, cmd, bench,
           bench_disk, cmd_ack, cmd_ack_disk, oomd_running,
           sideloader_running, slice_disabled, acts>>

\* The reporter thread (rd-agent/src/report.rs).
VARIABLES
    clk,            \* the system clock, in unix seconds (unix_now())
    rpc,            \* ReportWorker: the position in new / run_inner
    r_next_at,      \* run_inner: local next_at
    r_now,          \* run_inner: local now
    base_report,    \* run_inner: local base_report
    rf,             \* the two ReportFiles: report_file, report_file_1min
    fs,             \* per ReportFile: the directory d_path, the symlink path
                    \* and the staging symlink
    ops,            \* per ReportFile: the file operations of its last tick
    summary,        \* per ReportFile: the summary its last tick filled in
    nticks,         \* base reports built so far
    nfail,          \* failed calls of the aggregators so far
    fed,            \* per ReportFile: the samples given to tick since the
                    \* last summary: their count and their sum
    iolat_retries,  \* run_inner: local iolat_retries
    iolat_cum_retries, \* run_inner: local iolat_cum_retries
    nresets,        \* per latency reader: the calls of reset() after new()
    woke,           \* run_inner: the event select! woke on last
    term,           \* the termination channel: None while Reporter holds the
                    \* sender, Some(k) once it is dropped, with k the ticks
                    \* of report_file since
    mutex           \* the runner mutex: "poisoned" once the reporter has
                    \* panicked holding it

\* run_inner: the latency readers and the kick of the cumulative one.  Times
\* are readings of SystemTime::now() in units of 1 / PerSec of a second.
VARIABLES
    systime,        \* SystemTime::now()
    iolat_cum_kicked_at, \* run_inner: local iolat_cum_kicked_at
    kicked,         \* the times of the calls of iolat_cum.kick(), in order
    set_back,       \* a receipt since the last kick found the clock behind
                    \* iolat_cum_kicked_at
    line,           \* the line select! received last: its number and whether
                    \* parse_iolat_output takes it
    nlines,         \* the lines received so far
    lat             \* self.iolat and self.iolat_cum, by the number of the line

\* The runner mutex (Mutex<RunnerData>, Runner::data) and the positions of the
\* two threads around their lock() calls.
VARIABLES
    owner,          \* the guard that holds the mutex: "none", "data"
                    \* (Runner::run), "rdata" (ReportWorker::new), "usages"
                    \* (the temporary of read_usages), "runner_rep"
                    \* (base_report), "runner_inner" (run_inner)
    poison,         \* a thread panicked with a guard alive
    lpc,            \* the reconciler's position in Runner::run
    wpc,            \* the worker thread's position in ReportWorker::run
    nusage,         \* the ReportFiles made (lpc) or ticked (wpc) in the
                    \* current round, per thread
    sender,         \* term_tx: "none", "held" by the Reporter, "dropped"
    prog_exit       \* the program-exiting flag, set_prog_exiting()

lvars == <<owner, poison, lpc, wpc, nusage, sender, prog_exit>>

\* One call of IoCostQoSJob::run_one, step by step.
VARIABLES
    st_pc,          \* the position in run_one
    st_retries,     \* the argument nr_stor_retries
    st_tries,       \* local tries
    st_r,           \* local r, the result of the last storage benchmark
    st_log,         \* the calls made so far, in order: qos_cfg.apply,
                    \* sjob.run, pjob.run, rctx.stop_agent
    st_ret,         \* what run_one returned
    st_exiting      \* prog_exiting() of resctl-bench

svars == <<st_pc, st_retries, st_tries, st_r, st_log, st_ret, st_exiting>>

\* UsageTracker::read_usages in the worker thread.
VARIABLES
    usages_of       \* the services of the last read_usages, each with the
                    \* cgroup its usage was read from; None before the first

\* The report rings of resctl-demo (ReportRingSet) and one ReportData that
\* is filled from them.
VARIABLES
    ring_now,       \* the time of the last ReportRingSet::update
    rings,          \* ReportRing::ring of sec_ring and of min_ring: the `at`
                    \* of the records, oldest first
    rdata,          \* the ReportData; its field accs is the history of the
                    \* calls of acc since the last clear()
    last_src        \* the ring of the last fill, None before the first

gvars == <<ring_now, rings, rdata, last_src>>

\* The variables of the specifications of single functions.
xvars == <<svars, usages_of, gvars>>

kvars == <<systime, iolat_cum_kicked_at, kicked, set_back, line, nlines, lat,
           lvars, xvars>>

rvars == <<clk, rpc, r_next_at, r_now, base_report, rf, fs, ops, summary,
           nticks, nfail, fed, iolat_retries, iolat_cum_retries, nresets,
           woke, term, mutex, kvars>>

\* The QoS sweep of resctl-bench (resctl-bench/src/bench/iocost_qos.rs), a
\* process of its own.
VARIABLES
    jspec,          \* the JobSpec properties IoCostQoSJob::parse is given
    prev_data,      \* rctx.prev_job_data(), the record of the result file
    bench_knobs,    \* rctx.bench_knobs(): iocost.model and iocost.qos
    mem_profile,    \* rctx.mem_info().profile
    qpc,            \* the position in parse / run
    job,            \* the IoCostQoSJob parse returned (self in run)
    prev_matches_l, \* run: local prev_matches
    prev_rec,       \* run: local prev_rec
    run_i,          \* run: the index i of the loop over self.runs
    runs_l,         \* run: local runs
    inc_records,    \* the records given to update_incremental_record
    benched,        \* the overrides run_one was called with, in order
    nr_failed,      \* the calls of run_one that returned Err
    run_one_ret,    \* what the last call of run_one returned
    q_ret,          \* what parse, then run returned
    bench_exiting   \* prog_exiting() in resctl-bench

qvars == <<jspec, prev_data, bench_knobs, mem_profile, qpc, job,
           prev_matches_l, prev_rec, run_i, runs_l, inc_records, benched,
           nr_failed, run_one_ret, q_ret, bench_exiting>>

vars == <<cfg, dvars, last_op, last_ret, pc, cmd_pending, verify_pending,
          passes, it_start, prog_exiting, rvars, qvars>>

\* The runner data as one record, the argument of the handlers.
Data ==
    [state |-> state, warned_bench |-> warned_bench,
     warned_init |-> warned_init, force_apply |-> force_apply,
     bench_hashd |-> bench_hashd, bench_iocost |-> bench_iocost,
     hashd_active |-> hashd_active, side_active |-> side_active,
     cmd |-> cmd, bench |-> bench,
     bench_disk |-> bench_disk, cmd_ack |-> cmd_ack,
     cmd_ack_disk |-> cmd_ack_disk, oomd_running |-> oomd_running,
     sideloader_running |-> sideloader_running,
     slice_disabled |-> slice_disabled, acts |-> acts]

SetData(d) ==
    /\ state' = d.state
    /\ warned_bench' = d.warned_bench
    /\ warned_init' = d.warned_init
    /\ force_apply' = d.force_apply
    /\ bench_hashd' = d.bench_hashd
    /\ bench_iocost' = d.bench_iocost
    /\ hashd_active' = d.hashd_active
    /\ side_active' = d.side_active
    /\ cmd' = d.cmd
    /\ bench' = d.bench
    /\ bench_disk' = d.bench_disk
    /\ cmd_ack' = d.cmd_ack
    /\ cmd_ack_disk' = d.cmd_ack_disk
    /\ oomd_running' = d.oomd_running
    /\ sideloader_running' = d.sideloader_running
    /\ slice_disabled' = d.slice_disabled
    /\ acts' = d.acts

\* A call the handler makes, <<name, argument>>, appended to the log of the
\* handler call.
ActArg(d, a, arg) == [d EXCEPT !.acts = Append(@, <<a, arg>>)]

Act(d, a) == ActArg(d, a, 0)

\* A handler's result.
Ret(d, r) == [d |-> d, ret |-> r]

\* ------------------------------------------------------------ RunnerData
\* become_idle keeping the iocost-bench handle.
become_idle_keep_iocost(d) ==
    Act([d EXCEPT !.bench_hashd = "None",
                  !.hashd_active = FALSE,
                  !.side_active = FALSE,
                  !.state = "Idle"], "become_idle")

\* RunnerData::become_idle
become_idle(d) ==
    Act([d EXCEPT !.bench_hashd = "None",
                  !.bench_iocost = "None",
                  !.hashd_active = FALSE,
                  !.side_active = FALSE,
                  !.state = "Idle"], "become_idle")

\* Balloon::set_size
set_size(d, size) == ActArg(d, "set_balloon", size)

\* The balloon size rounded up instead of truncated.
balloon_size_ceil(ratio) == (total_memory * ratio + 99) \div 100

\* ((total_memory() as f64) * balloon_ratio) as usize
balloon_size(ratio) == (total_memory * ratio) \div 100

\* RunnerData::apply_workloads
apply_workloads(d) == Act([d EXCEPT !.hashd_active = TRUE], "apply_workloads")

\* SideRunner::apply_sysloads and SideRunner::apply_sideloads
apply_sideloads(d) ==
    Act(Act([d EXCEPT !.side_active = TRUE], "apply_sysloads"),
        "apply_sideloads")

\* The arm `Idle` with the hashd request tested before the iocost request.
apply_cmd_Idle_hashd_first(d, in) ==
    IF /\ d.cmd.bench_hashd_seq > d.bench.hashd_seq
       /\ (d.bench.iocost_seq > 0 \/ cfg.force_running)
    THEN
        IF ~in.balloon_ok THEN Ret(d, "panic")
        ELSE LET d1 == set_size(d, d.cmd.bench_hashd_balloon_size)
                 d2 == Act([d1 EXCEPT !.oomd_running = FALSE], "stop_oomd")
             IN IF ~in.start_ok THEN Ret(d2, "Err")
                ELSE Ret(Act([d2 EXCEPT !.bench_hashd = "Running",
                                        !.state = "BenchHashd",
                                        !.force_apply = TRUE],
                             "start_hashd_bench"), "Ok_false")
    ELSE IF d.cmd.bench_iocost_seq > d.bench.iocost_seq THEN
        IF ~in.start_ok THEN Ret(d, "Err")
        ELSE Ret(Act([d EXCEPT !.bench_iocost = "Running",
                               !.state = "BenchIoCost",
                               !.force_apply = TRUE], "start_iocost_bench"),
                 "Ok_false")
    ELSE IF d.bench.hashd_seq > 0 \/ cfg.force_running THEN
        Ret([d EXCEPT !.state = "Running"], "Ok_true")
    ELSE Ret([d EXCEPT !.warned_init = TRUE], "Ok_false")

\* The arm `Idle` with the hashd benchmark started whether or not the iocost
\* benchmark has ever completed.
apply_cmd_Idle_no_gate(d, in) ==
    IF d.cmd.bench_iocost_seq > d.bench.iocost_seq THEN
        IF ~in.start_ok THEN Ret(d, "Err")
        ELSE Ret(Act([d EXCEPT !.bench_iocost = "Running",
                               !.state = "BenchIoCost",
                               !.force_apply = TRUE], "start_iocost_bench"),
                 "Ok_false")
    ELSE IF d.cmd.bench_hashd_seq > d.bench.hashd_seq THEN
        IF ~in.balloon_ok THEN Ret(d, "panic")
        ELSE LET d1 == set_size(d, d.cmd.bench_hashd_balloon_size)
                 d2 == Act([d1 EXCEPT !.oomd_running = FALSE], "stop_oomd")
             IN IF ~in.start_ok THEN Ret(d2, "Err")
                ELSE Ret(Act([d2 EXCEPT !.bench_hashd = "Running",
                                        !.state = "BenchHashd",
                                        !.force_apply = TRUE],
                             "start_hashd_bench"), "Ok_false")
    ELSE IF d.bench.hashd_seq > 0 \/ cfg.force_running THEN
        Ret([d EXCEPT !.state = "Running"], "Ok_true")
    ELSE Ret([d EXCEPT !.warned_init = TRUE], "Ok_false")

\* The arm `Idle` starting a benchmark without asking for the forced reload.
apply_cmd_Idle_no_force(d, in) ==
    IF d.cmd.bench_iocost_seq > d.bench.iocost_seq THEN
        IF ~in.start_ok THEN Ret(d, "Err")
        ELSE Ret(Act([d EXCEPT !.bench_iocost = "Running",
                               !.state = "BenchIoCost"], "start_iocost_bench"),
                 "Ok_false")
    ELSE IF d.cmd.bench_hashd_seq > d.bench.hashd_seq THEN
        IF d.bench.iocost_seq > 0 \/ cfg.force_running THEN
            IF ~in.balloon_ok THEN Ret(d, "panic")
            ELSE LET d1 == set_size(d, d.cmd.bench_hashd_balloon_size)
                     d2 == Act([d1 EXCEPT !.oomd_running = FALSE], "stop_oomd")
                 IN IF ~in.start_ok THEN Ret(d2, "Err")
                    ELSE Ret(Act([d2 EXCEPT !.bench_hashd = "Running",
                                            !.state = "BenchHashd"],
                                 "start_hashd_bench"), "Ok_false")
        ELSE Ret([d EXCEPT !.warned_bench = TRUE], "Ok_false")
    ELSE IF d.bench.hashd_seq > 0 \/ cfg.force_running THEN
        Ret([d EXCEPT !.state = "Running"], "Ok_true")
    ELSE Ret([d EXCEPT !.warned_init = TRUE], "Ok_false")

\* apply_cmd, the arm `Idle` of the match on self.state
apply_cmd_Idle(d, in) ==
    IF d.cmd.bench_iocost_seq > d.bench.iocost_seq THEN
        IF ~in.start_ok THEN Ret(d, "Err")
        ELSE Ret(Act([d EXCEPT !.bench_iocost = "Running",
                               !.state = "BenchIoCost",
                               !.force_apply = TRUE], "start_iocost_bench"),
                 "Ok_false")
    ELSE IF d.cmd.bench_hashd_seq > d.bench.hashd_seq THEN
        IF d.bench.iocost_seq > 0 \/ cfg.force_running THEN
            IF ~in.balloon_ok THEN Ret(d, "panic")
            ELSE LET d1 == set_size(d, d.cmd.bench_hashd_balloon_size)
                     d2 == Act([d1 EXCEPT !.oomd_running = FALSE], "stop_oomd")
                 IN IF ~in.start_ok THEN Ret(d2, "Err")
                    ELSE Ret(Act([d2 EXCEPT !.bench_hashd = "Running",
                                            !.state = "BenchHashd",
                                            !.force_apply = TRUE],
                                 "start_hashd_bench"), "Ok_false")
        ELSE Ret([d EXCEPT !.warned_bench = TRUE], "Ok_false")
    ELSE IF d.bench.hashd_seq > 0 \/ cfg.force_running THEN
        Ret([d EXCEPT !.state = "Running"], "Ok_true")
    ELSE Ret([d EXCEPT !.warned_init = TRUE], "Ok_false")

\* The arm `Running` looking at the hashd request only.
apply_cmd_Running_hashd_only(d, in) ==
    IF d.cmd.bench_hashd_seq > d.bench.hashd_seq
    THEN Ret(become_idle(d), "Ok_false")
    ELSE IF ~in.workloads_ok THEN Ret(d, "panic")
    ELSE LET d1 == apply_sideloads(apply_workloads(d))
         IN IF ~in.balloon_ok THEN Ret(d1, "panic")
            ELSE Ret(set_size(d1, balloon_size(d.cmd.balloon_ratio)),
                     "Ok_false")

\* apply_cmd, the arm `Running`
apply_cmd_Running(d, in) ==
    IF \/ d.cmd.bench_hashd_seq > d.bench.hashd_seq
       \/ d.cmd.bench_iocost_seq > d.bench.iocost_seq
    THEN Ret(become_idle(d), "Ok_false")
    ELSE IF ~in.workloads_ok THEN Ret(d, "panic")
    ELSE LET d1 == apply_sideloads(apply_workloads(d))
         IN IF ~in.balloon_ok THEN Ret(d1, "panic")
            ELSE Ret(set_size(d1, balloon_size(d.cmd.balloon_ratio)),
                     "Ok_false")

\* The arm `BenchHashd` cancelling only below the completion sequence.
apply_cmd_BenchHashd_lt(d) ==
    IF d.cmd.bench_hashd_seq < d.bench.hashd_seq
    THEN Ret(become_idle(d), "Ok_false")
    ELSE Ret(d, "Ok_false")

\* apply_cmd, the arm `BenchHashd`
apply_cmd_BenchHashd(d) ==
    IF d.cmd.bench_hashd_seq <= d.bench.hashd_seq
    THEN Ret(become_idle(d), "Ok_false")
    ELSE Ret(d, "Ok_false")

\* The arm `BenchIoCost` cancelling by setting the state only.
apply_cmd_BenchIoCost_state_only(d) ==
    IF d.cmd.bench_iocost_seq <= d.bench.iocost_seq
    THEN Ret([d EXCEPT !.state = "Idle"], "Ok_false")
    ELSE Ret(d, "Ok_false")

\* apply_cmd, the arm `BenchIoCost`
apply_cmd_BenchIoCost(d) ==
    IF d.cmd.bench_iocost_seq <= d.bench.iocost_seq
    THEN Ret(become_idle(d), "Ok_false")
    ELSE Ret(d, "Ok_false")

\* RunnerData::apply_swappiness and apply_zswap_enabled: they read and write
\* the kernel knobs only with cfg.enforce.mem, and only then can fail.
apply_knobs_ok(in) == ~cfg.enforce_mem \/ in.knobs_ok

\* apply_cmd acknowledging the command after the one loaded.
apply_cmd_ack_next(d, in) ==
    LET d0 == [d EXCEPT !.acts = <<>>]
        d1 == ActArg([d0 EXCEPT !.cmd_ack = d.cmd.cmd_seq + 1,
                                !.cmd_ack_disk = IF in.ack_ok
                                                 THEN d.cmd.cmd_seq + 1 ELSE @],
                     "ack", d.cmd.cmd_seq + 1)
    IN IF ~apply_knobs_ok(in) THEN Ret(d1, "Err")
       ELSE
         LET d2 == Act(d1, "knobs")
             r == CASE d2.state = "Idle" -> apply_cmd_Idle(d2, in)
                    [] d2.state = "Running" -> apply_cmd_Running(d2, in)
                    [] d2.state = "BenchHashd" -> apply_cmd_BenchHashd(d2)
                    [] d2.state = "BenchIoCost" -> apply_cmd_BenchIoCost(d2)
         IN IF r.ret \in {"Err", "panic"} THEN r
            ELSE IF r.d.state # "Idle"
                 THEN Ret([r.d EXCEPT !.warned_bench = FALSE,
                                      !.warned_init = FALSE], r.ret)
                 ELSE r

\* RunnerData::apply_cmd
apply_cmd(d, in) ==
    LET d0 == [d EXCEPT !.acts = <<>>]
        d1 == ActArg([d0 EXCEPT !.cmd_ack = d.cmd.cmd_seq,
                                !.cmd_ack_disk = IF in.ack_ok
                                                 THEN d.cmd.cmd_seq ELSE @],
                     "ack", d.cmd.cmd_seq)
    IN IF ~apply_knobs_ok(in) THEN Ret(d1, "Err")
       ELSE
         LET d2 == Act(d1, "knobs")
             r == CASE d2.state = "Idle" -> apply_cmd_Idle(d2, in)
                    [] d2.state = "Running" -> apply_cmd_Running(d2, in)
                    [] d2.state = "BenchHashd" -> apply_cmd_BenchHashd(d2)
                    [] d2.state = "BenchIoCost" -> apply_cmd_BenchIoCost(d2)
         IN IF r.ret \in {"Err", "panic"} THEN r
            ELSE IF r.d.state # "Idle"
                 THEN Ret([r.d EXCEPT !.warned_bench = FALSE,
                                      !.warned_init = FALSE], r.ret)
                 ELSE r

\* The outcomes of the fallible calls of apply_cmd.
ApplyInAll ==
    [ack_ok : BOOLEAN, knobs_ok : BOOLEAN, start_ok : BOOLEAN,
     balloon_ok : BOOLEAN, workloads_ok : BOOLEAN]

\* The same with the commit of the ack file succeeding.
ApplyIn == {in \in ApplyInAll : in.ack_ok}

\* bench::update_hashd / bench::update_iocost: the result of the benchmark is
\* read back and the completion sequence is set to the request sequence.
update_hashd(b, seq) == [b EXCEPT !.hashd_seq = seq]

update_iocost(b, seq) == [b EXCEPT !.iocost_seq = seq]

\* JsonConfigFile::save of the bench file
save_bench(d) == Act([d EXCEPT !.bench_disk = d.bench], "save_bench")

\* The arm `US::Exited` without the save of the bench file.
check_completions_Exited_no_save(d, in) ==
    IF ~in.update_ok THEN Ret(d, "Err")
    ELSE IF d.state = "BenchHashd" THEN
        Ret(become_idle(Act([d EXCEPT !.bench =
                                 update_hashd(@, d.cmd.bench_hashd_seq)],
                            "update_hashd")), "Ok")
    ELSE
        LET d1 == Act([d EXCEPT !.bench = update_iocost(@, d.cmd.bench_iocost_seq)],
                      "update_iocost")
        IN IF ~in.apply_ok THEN Ret(d1, "Err")
           ELSE Ret(become_idle(Act(d1, "apply_iocost")), "Ok")

\* check_completions, the arm `US::Exited`
check_completions_Exited(d, in) ==
    IF ~in.update_ok THEN Ret(d, "Err")
    ELSE IF d.state = "BenchHashd" THEN
        LET d1 == Act([d EXCEPT !.bench = update_hashd(@, d.cmd.bench_hashd_seq)],
                      "update_hashd")
        IN IF ~in.save_ok THEN Ret(d1, "Err")
           ELSE Ret(become_idle(save_bench(d1)), "Ok")
    ELSE
        LET d1 == Act([d EXCEPT !.bench = update_iocost(@, d.cmd.bench_iocost_seq)],
                      "update_iocost")
        IN IF ~in.save_ok THEN Ret(d1, "Err")
           ELSE IF ~in.apply_ok THEN Ret(save_bench(d1), "Err")
           ELSE Ret(become_idle(Act(save_bench(d1), "apply_iocost")), "Ok")

\* check_completions with a unit that is neither Running nor Exited left to
\* the next iteration.
check_completions_ignore_failed(d, in) ==
    LET d0 == [d EXCEPT !.acts = <<>>] IN
    IF d.state \in {"BenchHashd", "BenchIoCost"} THEN
        LET unit == IF d.state = "BenchHashd" THEN d.bench_hashd
                    ELSE d.bench_iocost
        IN IF unit = "None" THEN Ret(d0, "panic")
           ELSE IF ~in.refresh_ok THEN Ret(d0, "Err")
           ELSE CASE unit = "Exited" -> check_completions_Exited(d0, in)
                  [] OTHER -> Ret(d0, "Ok")
    ELSE Ret(d0, "Ok")

\* RunnerData::check_completions.  `unit` is the status the supervisor holds
\* for the unit of the active benchmark, which refresh() pulls.
check_completions(d, in) ==
    LET d0 == [d EXCEPT !.acts = <<>>] IN
    IF d.state \in {"BenchHashd", "BenchIoCost"} THEN
        LET unit == IF d.state = "BenchHashd" THEN d.bench_hashd
                    ELSE d.bench_iocost
        IN IF unit = "None" THEN Ret(d0, "panic")
           ELSE IF ~in.refresh_ok THEN Ret(d0, "Err")
           ELSE CASE unit = "Running" -> Ret(d0, "Ok")
                  [] unit = "Exited" -> check_completions_Exited(d0, in)
                  [] OTHER -> Ret(become_idle(d0), "Ok")
    ELSE Ret(d0, "Ok")

\* The outcomes of the fallible calls of check_completions.
CheckIn ==
    [refresh_ok : BOOLEAN, update_ok : BOOLEAN, save_ok : BOOLEAN,
     apply_ok : BOOLEAN]

\* JsonConfigFile::maybe_reload through RunnerData::maybe_reload_one: `new` is
\* the changed content of the file, or NoChange.
maybe_reload_one(old, new) ==
    IF new = NoChange THEN [data |-> old, re |-> FALSE]
    ELSE [data |-> new[1], re |-> TRUE]

\* maybe_reload without its test of the state: every file is looked at.
maybe_reload_in_bench(d, in) ==
    LET last_cpu_headroom == d.cmd.cpu_headroom
        in_bench == FALSE
        force == ~in_bench /\ d.force_apply
        lb == IF in_bench THEN [data |-> d.bench, re |-> FALSE]
              ELSE maybe_reload_one(d.bench, in.bench)
        ls == IF in_bench THEN [data |-> d.slice_disabled, re |-> FALSE]
              ELSE maybe_reload_one(d.slice_disabled, in.slice)
        l_side == ~in_bench /\ in.side
        l_oomd == ~in_bench /\ in.oomd
        re_bench == lb.re \/ force
        re_slice == ls.re \/ force
        re_side == l_side \/ force
        re_oomd == l_oomd \/ force
        lc == maybe_reload_one(d.cmd, in.cmd)
        re_cmd == lc.re
        d1 == [d EXCEPT !.acts = <<>>,
                        !.force_apply = IF in_bench THEN @ ELSE FALSE,
                        !.bench = lb.data,
                        !.bench_disk = IF lb.re THEN lb.data ELSE @,
                        !.slice_disabled = ls.data,
                        !.cmd = lc.data]
        d2 == IF re_bench THEN Act(d1, "apply_iocost") ELSE d1
        d3 == IF re_bench \/ re_slice THEN Act(d2, "apply_slices") ELSE d2
        do_oomd == (re_bench \/ re_oomd) /\ cfg.enforce_oomd
        d4 == IF do_oomd THEN Act([d3 EXCEPT !.oomd_running = TRUE], "apply_oomd")
              ELSE d3
        stop_sl == re_slice /\ d4.slice_disabled /\ d4.sideloader_running
        d5 == IF stop_sl
              THEN Act([d4 EXCEPT !.sideloader_running = FALSE], "stop_sideloader")
              ELSE d4
        apply_sideloader ==
            \/ re_slice /\ ~d4.slice_disabled /\ ~d4.sideloader_running
            \/ d5.cmd.cpu_headroom # last_cpu_headroom
        do_sl == apply_sideloader /\ cfg.enforce_all
        d6 == IF do_sl
              THEN Act([d5 EXCEPT !.sideloader_running = TRUE], "apply_sideloader")
              ELSE d5
        files == [bench |-> lb.re, slice |-> ls.re, side |-> l_side,
                  oomd |-> l_oomd, cmd |-> lc.re]
    IN IF do_oomd /\ ~in.oomd_ok THEN [d |-> d3, ret |-> "panic", files |-> files]
       ELSE IF do_sl /\ ~in.sideloader_ok
            THEN [d |-> d5, ret |-> "panic", files |-> files]
       ELSE [d |-> d6,
             ret |-> IF re_bench \/ re_cmd \/ re_slice THEN "true" ELSE "false",
             files |-> files]

\* RunnerData::maybe_reload.  It returns the change it reports and, for the
\* properties about single files, the files it reloaded.
maybe_reload(d, in) ==
    LET last_cpu_headroom == d.cmd.cpu_headroom
        in_bench == d.state \in {"BenchIoCost", "BenchHashd"}
        force == ~in_bench /\ d.force_apply
        lb == IF in_bench THEN [data |-> d.bench, re |-> FALSE]
              ELSE maybe_reload_one(d.bench, in.bench)
        ls == IF in_bench THEN [data |-> d.slice_disabled, re |-> FALSE]
              ELSE maybe_reload_one(d.slice_disabled, in.slice)
        l_side == ~in_bench /\ in.side
        l_oomd == ~in_bench /\ in.oomd
        re_bench == lb.re \/ force
        re_slice == ls.re \/ force
        re_side == l_side \/ force
        re_oomd == l_oomd \/ force
        lc == maybe_reload_one(d.cmd, in.cmd)
        re_cmd == lc.re
        d1 == [d EXCEPT !.acts = <<>>,
                        !.force_apply = IF in_bench THEN @ ELSE FALSE,
                        !.bench = lb.data,
                        !.bench_disk = IF lb.re THEN lb.data ELSE @,
                        !.slice_disabled = ls.data,
                        !.cmd = lc.data]
        d2 == IF re_bench THEN Act(d1, "apply_iocost") ELSE d1
        d3 == IF re_bench \/ re_slice THEN Act(d2, "apply_slices") ELSE d2
        do_oomd == (re_bench \/ re_oomd) /\ cfg.enforce_oomd
        d4 == IF do_oomd THEN Act([d3 EXCEPT !.oomd_running = TRUE], "apply_oomd")
              ELSE d3
        stop_sl == re_slice /\ d4.slice_disabled /\ d4.sideloader_running
        d5 == IF stop_sl
              THEN Act([d4 EXCEPT !.sideloader_running = FALSE], "stop_sideloader")
              ELSE d4
        apply_sideloader ==
            \/ re_slice /\ ~d4.slice_disabled /\ ~d4.sideloader_running
            \/ d5.cmd.cpu_headroom # last_cpu_headroom
        do_sl == apply_sideloader /\ cfg.enforce_all
        d6 == IF do_sl
              THEN Act([d5 EXCEPT !.sideloader_running = TRUE], "apply_sideloader")
              ELSE d5
        files == [bench |-> lb.re, slice |-> ls.re, side |-> l_side,
                  oomd |-> l_oomd, cmd |-> lc.re]
    IN IF do_oomd /\ ~in.oomd_ok THEN [d |-> d3, ret |-> "panic", files |-> files]
       ELSE IF do_sl /\ ~in.sideloader_ok
            THEN [d |-> d5, ret |-> "panic", files |-> files]
       ELSE [d |-> d6,
             ret |-> IF re_bench \/ re_cmd \/ re_slice THEN "true" ELSE "false",
             files |-> files]

\* What an external writer may have put into the command file since it was
\* loaded: a command with a larger cmd_seq.
NewCmds(c) == {Changed(n) : n \in {m \in CmdSet : m.cmd_seq > c.cmd_seq}}

\* The inputs of maybe_reload: the changed content of each file, or NoChange,
\* and the outcomes of its fallible calls.  While a benchmark runs only the
\* command file is read.  Here the command and the bench file change and
\* the sideloader's headroom stays as it is; the slice, side-definition and
\* OOMD files stay as they are.
ReloadIn(d) ==
    LET in_bench == d.state \in {"BenchIoCost", "BenchHashd"} IN
    [bench : IF in_bench THEN {NoChange}
             ELSE {Changed(b) : b \in BenchSet} \cup {NoChange},
     slice : {NoChange},
     side : {FALSE},
     oomd : {FALSE},
     cmd : {c \in NewCmds(d.cmd) : c[1].cpu_headroom = d.cmd.cpu_headroom}
           \cup {NoChange},
     oomd_ok : IF cfg.enforce_oomd /\ ~in_bench THEN BOOLEAN ELSE {TRUE},
     sideloader_ok : {TRUE}]

\* Every file may have changed when maybe_reload is called, and each of its
\* fallible calls may fail.
ReloadInAll(d) ==
    [bench : {Changed(b) : b \in BenchSet} \cup {NoChange},
     slice : {Changed(TRUE), Changed(FALSE), NoChange},
     side : BOOLEAN,
     oomd : BOOLEAN,
     cmd : NewCmds(d.cmd) \cup {NoChange},
     oomd_ok : BOOLEAN,
     sideloader_ok : BOOLEAN]

\* ------------------------------------------------------------ report.rs
\* Option<T>
None == <<>>

Some(v) == <<v>>

\* The two ReportFile instances of ReportWorker.
RF == {"report_file", "report_file_1min"}

\* The intv ReportWorker::new gives each of them.
Intv(f) == IF f = "report_file" THEN 1 ELSE 60

\* The two latency readers of run_inner.
Readers == {"iolat", "iolat_cum"}

\* A metric of a report (hashd[0].rps, iocost.vrate) is a number with one
\* decimal, held in tenths.
Tenths(x) == x * 10

\* `+=` and `/=` of HashdReport and of IoCostReport on that metric: the sum,
\* and the quotient of the division of floats, kept to one decimal.
hashd_add(acc, x) == acc + x

hashd_div(acc, n) == acc \div n

iocost_add(acc, x) == acc + x

iocost_div(acc, n) == acc \div n

\* The bucket after the one of `now`, not rounded to the interval.
next_at_unrounded(now, intv) == now + intv

\* `((now / intv) + 1) * intv`: the start of the bucket after the
\* one of `now`.
next_at_of(now, intv) == (now \div intv + 1) * intv

\* clear_old_report_files on the names `files` of a report directory (the
\* names that do not scan as {d}.json are left out of the model).
clear_old_report_files(files, retention, now) ==
    IF retention = None THEN files
    ELSE {n \in files : ~(n < now - retention[1])}

\* ReportFile::new: the new ReportFile and the directory it leaves.
\* `read_ok` is fs::read_dir succeeding.
ReportFile_new(intv, retention, files, now, read_ok) ==
    [rf |-> [intv |-> intv, retention |-> retention,
             next_at |-> next_at_of(now, intv),
             hashd_acc |-> 0, iocost_acc |-> 0, nr_samples |-> 0],
     files |-> IF read_ok THEN clear_old_report_files(files, retention, now)
               ELSE files]

\* One operation of tick on the files of a report: <<"commit", n>> writes
\* {d_path}/{n}.json whole, <<"remove_staging">>, <<"symlink", n>> makes the
\* staging symlink to {n}.json, <<"rename">> moves the staging symlink over
\* the stable path, <<"remove", S>> is the loop that removes {n}.json for
\* the n of S.
ApplyOp(x, op) ==
    CASE op[1] = "commit" -> [x EXCEPT !.files = @ \cup {op[2]}]
      [] op[1] = "remove_staging" -> [x EXCEPT !.staging = None]
      [] op[1] = "symlink" ->
           IF x.staging = None THEN [x EXCEPT !.staging = Some(op[2])] ELSE x
      [] op[1] = "rename" ->
           IF x.staging = None THEN x
           ELSE [x EXCEPT !.link = x.staging, !.staging = None]
      [] op[1] = "remove" -> [x EXCEPT !.files = @ \ op[2]]

\* The files after the first k operations of a tick.
RECURSIVE ApplyOps(_, _, _)
ApplyOps(x, o, k) ==
    IF k = 0 THEN x ELSE ApplyOp(ApplyOps(x, o, k - 1), o[k])

\* The name of a report taken from the minute of `now`.
report_name_minute(now, intv) == (now \div 60) * 60

\* `now / self.intv * self.intv`: the name of the report of the bucket of
\* `now`.
report_name(now, intv) == (now \div intv) * intv

\* The accumulation with the count set to one sample.
accumulate_count_one(f, b) ==
    [f EXCEPT !.hashd_acc = hashd_add(@, b.hashd_rps),
              !.iocost_acc = iocost_add(@, b.iocost_vrate),
              !.nr_samples = 1]

\* tick, the accumulation of the sample of the base report b.
accumulate(f, b) ==
    [f EXCEPT !.hashd_acc = hashd_add(@, b.hashd_rps),
              !.iocost_acc = iocost_add(@, b.iocost_vrate),
              !.nr_samples = @ + 1]

\* ReportFile::tick on the ReportFile f and its files x, with the base
\* report b at time now.  `in` holds the outcomes of usage_tracker.update(),
\* of report_file.commit() and of symlink().  The result holds the summary
\* the tick filled in, if it came to one.
tick(f, x, b, now, in) ==
    LET acc == accumulate(f, b)
    IN IF now < f.next_at
       THEN [rf |-> acc, fs |-> x, ops |-> <<>>, summary |-> None]
       ELSE
         LET was_at == f.next_at - f.intv
             name == report_name(now, f.intv)
             report == [name |-> name, timestamp |-> b.timestamp,
                        hashd_rps |-> hashd_div(acc.hashd_acc, acc.nr_samples),
                        iocost_vrate |-> iocost_div(acc.iocost_acc, acc.nr_samples),
                        nr_samples |-> acc.nr_samples]
             f1 == [acc EXCEPT !.next_at = next_at_of(now, f.intv),
                               !.hashd_acc = 0, !.iocost_acc = 0,
                               !.nr_samples = 0]
         IN IF ~in.usage_ok
            THEN [rf |-> f1, fs |-> x, ops |-> <<>>, summary |-> Some(report)]
            ELSE
              LET rm == IF f.retention = None THEN <<>>
                        ELSE <<<<"remove",
                                 {i - f.retention[1] : i \in was_at..(now - 1)}>>>>
                  o == (IF in.commit_ok THEN <<<<"commit", name>>>> ELSE <<>>)
                       \o <<<<"remove_staging", 0>>>>
                       \o (IF in.symlink_ok THEN <<<<"symlink", name>>>> ELSE <<>>)
                       \o <<<<"rename", 0>>>>
                       \o rm
              IN [rf |-> f1, fs |-> ApplyOps(x, o, Len(o)), ops |-> o,
                  summary |-> Some(report)]

\* The outcomes of the fallible calls of tick.
TickIn == [usage_ok : BOOLEAN, commit_ok : BOOLEAN, symlink_ok : BOOLEAN]

TickOk == [usage_ok |-> TRUE, commit_ok |-> TRUE, symlink_ok |-> TRUE]

\* The retentions cfg.rep_retention and cfg.rep_1min_retention take, in
\* intervals of the ReportFile: none, or MaxRetention intervals.
Retentions == {None, Some(MaxRetention)}

RetentionOf(ret, f) ==
    IF ret = None THEN None ELSE Some(ret[1] * Intv(f))

\* The times the reporter is started at: the last seconds of a minute.
StartTimes == {StartMinute * 60 - 2, StartMinute * 60 - 1}

\* The seconds that pass while the reporter sleeps in select!: none (it was
\* woken by a message), one, or a stall of a minute.
Skips == {0, 1, 60}

\* The names found in the report directory of f when the reporter starts at
\* `now`: none, or two reports of an earlier run.
OldFiles(now, f) ==
    {{}, {report_name(now, Intv(f)) - 3 * Intv(f),
          report_name(now, Intv(f)) - Intv(f)}}

\* hashd[0].rps of a base report, in tenths.
Samples == {Tenths(100), Tenths(103)}

\* ------------------------------------------------------- the QoS sweep
\* (resctl-bench/src/bench/iocost_qos.rs)

\* f64 values of vrate are kept in fixed point, VUnit ticks to the percent.
\* The divisions parse makes on the inputs below are exact in ticks, and no
\* value parse compares comes nearer to another than one tick, so the
\* rounding of f64 decides no comparison.
VUnit == 6000

\* f64::INFINITY, the quotient of a positive f64 by 0.0.
F64_INFINITY == 10 * VUnit * VUnit

DFL_VRATE_MAX == 100 * VUnit
DFL_VRATE_INTVS == 5
DFL_RETRIES == 1
VRATE_INTVS_MIN == 1 * VUnit

\* IoCostQoSOvr, with the fields the sweep reads or writes; rpct, rlat, wpct,
\* wlat and min_adj are left at their defaults.
IoCostQoSOvr(off, min, max, skip) ==
    [off |-> off, min |-> min, max |-> max, skip |-> skip]

\* `IoCostQoSOvr { off: true, ..Default::default() }`
OvrOff == IoCostQoSOvr(TRUE, None, None, FALSE)

\* IoCostQoSOvr::sanitize on a vrate point.
sanitize(ovr) == ovr

\* f64::max
f64_max(a, b) == IF a >= b THEN a ELSE b

\* The step between two vrate points, ignoring the special case of
\* vrate_min == 0.
click_inclusive(vrate_min, vrate_max, vrate_intvs) ==
    IF vrate_intvs = 1
    THEN F64_INFINITY
    ELSE (vrate_max - vrate_min) \div (vrate_intvs - 1)

\* parse: `click`.
click_of(vrate_min, vrate_max, vrate_intvs) ==
    IF vrate_min = 0
    THEN vrate_max \div vrate_intvs
    ELSE IF vrate_intvs = 1
    THEN F64_INFINITY
    ELSE (vrate_max - vrate_min) \div (vrate_intvs - 1)

\* A dither distance drawn without looking at the previous record.
dither_dist_fresh(dither_dist, pd, rnd) ==
    IF dither_dist # None THEN dither_dist ELSE Some(rnd)

\* parse: dither_dist once `if dither { .. }` has settled it: the one given
\* with the property, else the one of the previous record, else the draw rnd.
dither_dist_of(dither_dist, pd, rnd) ==
    IF dither_dist # None
    THEN dither_dist
    ELSE IF pd # None /\ pd[1].dither_dist # None
    THEN pd[1].dither_dist
    ELSE Some(rnd)

\* The values gen_range(-click / 2.0..click / 2.0) is taken to draw: both
\* ends of the half-open range and its middle.
gen_range(click) == <<-(click \div 2), 0, (click \div 2) - 1>>

\* parse: `while vrate > vrate_min - 0.001 { .. vrate -= click; }`
RECURSIVE vrate_walk(_, _, _)
vrate_walk(vrate, vrate_min, click) ==
    IF vrate > vrate_min - VUnit \div 1000
    THEN <<sanitize(IoCostQoSOvr(FALSE, Some(vrate), Some(vrate), FALSE))>>
         \o vrate_walk(vrate - click, vrate_min, click)
    ELSE <<>>

\* A result: Ok(v) or Err(e).
Ok(v) == [ok |-> TRUE, v |-> v]
Err(e) == [ok |-> FALSE, v |-> e]

\* IoCostQoSJob::parse(spec, prev_data), with r the index of the value
\* gen_range draws if it is called.
parse(spec, pd, r) ==
    LET vrate_min0 == IF spec.vrate_min = None THEN 0 ELSE spec.vrate_min[1]
        vrate_max0 == IF spec.vrate_max = None THEN DFL_VRATE_MAX
                      ELSE spec.vrate_max[1]
        runs0 == <<OvrOff>> \o spec.ovrs
        vrate_intvs == IF Len(runs0) = 1 /\ spec.vrate_intvs = 0
                       THEN DFL_VRATE_INTVS ELSE spec.vrate_intvs
        click == click_of(vrate_min0, vrate_max0, vrate_intvs)
        vrate_min1 == IF vrate_min0 = 0 THEN click ELSE vrate_min0
        dither_shift == IF vrate_min0 = 0 THEN -(click \div 2) ELSE 0
        dd == IF spec.dither /\ vrate_intvs > 0
              THEN dither_dist_of(spec.dither_dist, pd,
                                  gen_range(click)[r] + dither_shift)
              ELSE spec.dither_dist
        off == IF spec.dither THEN dd[1] ELSE 0
        vrate_min2 == f64_max(vrate_min1 + off, VRATE_INTVS_MIN)
        vrate_max2 == vrate_max0 + off
        job_of(dist, rs) ==
            [dither_dist |-> dist, ign_min_perf |-> spec.ign_min_perf,
             retries |-> spec.retries, allow_fail |-> spec.allow_fail,
             runs |-> rs]
    IN IF vrate_min0 < 0 \/ vrate_max0 < 0 \/ vrate_min0 >= vrate_max0
       THEN Err("invalid vrate range")
       ELSE IF vrate_intvs > 0
       THEN Ok(job_of(dd, runs0 \o vrate_walk(vrate_max2, vrate_min2, click)))
       ELSE Ok(job_of(dd, runs0))

\* IoCostQoSRecordRun: the period, the override, the QoS read back and
\* stor.mem.profile; the rest of the storage and protection records is left
\* out.
IoCostQoSRecordRun(period, ovr, qos, profile) ==
    [period |-> period, ovr |-> ovr, qos |-> qos, stor_mem_profile |-> profile]

\* IoCostQoSRecord
IoCostQoSRecord(base_model, base_qos, profile, rs, dither_dist, inc_runs) ==
    [base_model |-> base_model, base_qos |-> base_qos,
     mem_profile |-> profile, runs |-> rs, dither_dist |-> dither_dist,
     inc_runs |-> inc_runs]

\* iocost_min_vrate(model): the model parameters are kept as the minimum
\* vrate they give.
iocost_min_vrate(model) == model.min_vrate

\* IoCostQoSOvr::skip_or_adj: mark an override whose max rate is too low to
\* run.
skip_or_adj(ovr, abs_min_vrate) ==
    IF ~ovr.off /\ ovr.max # None /\ ovr.max[1] < abs_min_vrate
    THEN [ovr EXCEPT !.skip = TRUE]
    ELSE ovr

\* IoCostQoSCfg::calc: the QoS of the base with the fields the override sets
\* put over it; None for an override that turns iocost off.
calc(base_qos, ovr) ==
    IF ovr.off
    THEN None
    ELSE Some([base_qos EXCEPT
                 !.min = IF ovr.min = None THEN @ ELSE ovr.min[1],
                 !.max = IF ovr.max = None THEN @ ELSE ovr.max[1]])

\* prev_matches with every field but the memory profile compared.
prev_matches_no_profile(prec, profile, knobs) ==
    /\ (Len(prec.runs) > 0 /\ prec.runs[1] # None) \/ Len(prec.inc_runs) > 0
    /\ ~(prec.base_model # knobs.model \/ prec.base_qos # knobs.qos)

\* IoCostQoSJob::prev_matches
prev_matches(prec, profile, knobs) ==
    LET has0 == Len(prec.runs) > 0 /\ prec.runs[1] # None
        base_rec == IF has0 THEN prec.runs[1][1] ELSE prec.inc_runs[1]
    IN IF ~has0 /\ Len(prec.inc_runs) = 0
       THEN FALSE
       ELSE IF prec.base_model # knobs.model \/ prec.base_qos # knobs.qos
       THEN FALSE
       ELSE IF profile # base_rec.stor_mem_profile
       THEN FALSE
       ELSE TRUE

\* `prev_rec.runs.iter().filter_map(|x| x.as_ref())
\*      .chain(prev_rec.inc_runs.iter())`
rec_runs(rec) ==
    LET some == SelectSeq(rec.runs, LAMBDA x : x # None)
    IN [k \in 1..Len(some) |-> some[k][1]] \o rec.inc_runs

\* find_matching_rec_run looking through inc_runs only.
find_matching_inc_run(ovr, rec) ==
    LET hits == {k \in 1..Len(rec.inc_runs) : ovr = rec.inc_runs[k].ovr}
    IN IF hits = {}
       THEN None
       ELSE Some(rec.inc_runs[CHOOSE k \in hits : \A j \in hits : k <= j])

\* IoCostQoSJob::find_matching_rec_run
find_matching_rec_run(ovr, rec) ==
    LET rs == rec_runs(rec)
        hits == {k \in 1..Len(rs) : ovr = rs[k].ovr}
    IN IF hits = {}
       THEN None
       ELSE Some(rs[CHOOSE k \in hits : \A j \in hits : k <= j])

\* IoCostQoSJob::run_one on the override ovr: `fails` storage benchmarks
\* fail before one succeeds, `exiting` is prog_exiting() at a failure, qos
\* is iocost.qos of the agent's bench file at the end.
run_one(ovr, nr_stor_retries, fails, exiting, qos, period, profile) ==
    IF fails > 0 /\ (exiting \/ fails > nr_stor_retries)
    THEN Err("Storage benchmark failed too many times")
    ELSE Ok(IoCostQoSRecordRun(period, ovr,
                               IF ovr.off THEN None ELSE Some(qos), profile))

\* The sanity check of run left out.
qos_differs_never(recr, target_qos) == FALSE

\* run, `Sanity check QoS params`: the QoS read back is not the target.
qos_differs(recr, target_qos) == recr.qos # None /\ recr.qos # target_qos

\* The run put in front of inc_runs.
inc_runs_push_front(rec, recr) == [rec EXCEPT !.inc_runs = <<recr>> \o @]

\* run: `prev_rec.inc_runs.push(recr.clone())`
inc_runs_push(rec, recr) == [rec EXCEPT !.inc_runs = Append(@, recr)]

\* Vec::resize(n, None)
resize(s, n) == [k \in 1..n |-> IF k <= Len(s) THEN s[k] ELSE None]

\* run: the loop over self.runs that counts nr_to_run.
nr_to_run(rs, rec) ==
    Cardinality({k \in 1..Len(rs) :
                   ~rs[k].skip /\ find_matching_rec_run(rs[k], rec) = None})

\* No sweep is made.
NoSweep ==
    /\ jspec = None
    /\ prev_data = None
    /\ bench_knobs = None
    /\ mem_profile = 0
    /\ qpc = "none"
    /\ job = None
    /\ prev_matches_l = FALSE
    /\ prev_rec = None
    /\ run_i = 0
    /\ runs_l = <<>>
    /\ inc_records = <<>>
    /\ benched = <<>>
    /\ nr_failed = 0
    /\ run_one_ret = None
    /\ q_ret = None
    /\ bench_exiting = FALSE

\* The locals of run_inner about the latency readers are as run_inner sets
\* them before its loop (lines 864-867) and ReportWorker::new sets the two
\* reports (755-756); the clock is not read.
NoKick ==
    /\ systime = 0
    /\ iolat_cum_kicked_at = 0
    /\ kicked = <<>>
    /\ set_back = FALSE
    /\ line = None
    /\ nlines = 0
    /\ lat = [iolat |-> 0, iolat_cum |-> 0]

\* Runner::run before its loop: the mutex is taken (line 414), no reporter.
NoLock ==
    /\ owner = "data"
    /\ poison = FALSE
    /\ lpc = "top"
    /\ wpc = "none"
    /\ nusage = [t \in {"reconciler", "worker"} |-> 0]
    /\ sender = "none"
    /\ prog_exit = FALSE

\* run_one is not called.
NoStor ==
    /\ st_pc = "none"
    /\ st_retries = 0
    /\ st_tries = 0
    /\ st_r = "none"
    /\ st_log = <<>>
    /\ st_ret = "none"
    /\ st_exiting = FALSE

\* read_usages is not called.
NoUsage == usages_of = None

\* The default of ReportDataTip (161-166) and of T.
TipDefault == [at |-> 0, data |-> [ats |-> <<>>, by |-> 0], nr_samples |-> 0]

\* ReportData::new (204-217).
ReportData_new ==
    [next_src_at |-> 0, tip |-> TipDefault, data_ring |-> <<>>, stride |-> 0,
     nr_slots |-> 0, src_cadence |-> 0, step |-> 0, accs |-> <<>>]

\* The rings are not followed.
NoRing ==
    /\ ring_now = 0
    /\ rings = [r \in {"sec", "min"} |-> <<>>]
    /\ rdata = ReportData_new
    /\ last_src = None

\* No function is followed on its own.
NoSingle == NoStor /\ NoUsage /\ NoRing

\* No worker thread is made.
NoWorker ==
    /\ clk = 0
    /\ rpc = "none"
    /\ r_next_at = 0
    /\ r_now = 0
    /\ base_report = None
    /\ rf = [f \in RF |-> None]
    /\ fs = [f \in RF |-> [files |-> {}, link |-> None, staging |-> None]]
    /\ ops = [f \in RF |-> <<>>]
    /\ summary = [f \in RF |-> None]
    /\ nticks = 0
    /\ nfail = 0
    /\ fed = [f \in RF |-> [n |-> 0, sum |-> 0]]
    /\ iolat_retries = 0
    /\ iolat_cum_retries = 0
    /\ nresets = [r \in Readers |-> 0]
    /\ woke = "none"
    /\ term = None
    /\ mutex = "ok"
    /\ NoKick
    /\ NoLock

\* The reporter is not created.
NoReporter == NoWorker /\ NoSingle

\* ------------------------------------------------------------ Runner::run
\* RunnerData::new and the locals of Runner::run before the loop.
InitRunner ==
    /\ cfg \in CfgSet
    /\ state = "Idle"
    /\ warned_bench = FALSE
    /\ warned_init = FALSE
    /\ force_apply = FALSE
    /\ bench_hashd = "None"
    /\ bench_iocost = "None"
    /\ hashd_active = FALSE
    /\ side_active = FALSE
    /\ cmd \in {c \in CmdSet : c.cmd_seq = 0 /\ c.cpu_headroom = 10}
    /\ bench \in BenchSet
    /\ bench_disk = bench
    /\ cmd_ack = 0
    /\ cmd_ack_disk = 0
    /\ oomd_running = cfg.enforce_oomd
    /\ slice_disabled = FALSE
    /\ sideloader_running = cfg.enforce_all
    /\ acts = <<>>
    /\ last_op = "none"
    /\ last_ret = "none"
    /\ pc = "top"
    /\ cmd_pending = TRUE
    /\ verify_pending = FALSE
    /\ passes = 0
    /\ it_start = [state |-> "Idle", cmd_pending |-> TRUE]
    /\ prog_exiting = FALSE

\* The program at the start of Runner::run: no reporter yet.
Init == InitRunner /\ NoReporter /\ NoSweep

\* The loop with apply_cmd run in every iteration.
LoopTop_always_apply ==
    /\ UNCHANGED <<rvars, qvars>>
    /\ pc = "top"
    /\ IF prog_exiting
       THEN /\ pc' = "done"
            /\ UNCHANGED <<cmd_pending, passes, it_start>>
       ELSE /\ it_start' = [state |-> state, cmd_pending |-> cmd_pending]
            /\ passes' = 0
            /\ cmd_pending' = FALSE /\ pc' = "apply"
    /\ UNCHANGED <<cfg, dvars, last_op, last_ret, verify_pending, prog_exiting>>

\* `while !prog_exiting()` and `if cmd_pending || data.state == Idle`
LoopTop ==
    /\ UNCHANGED <<rvars, qvars>>
    /\ pc = "top"
    /\ IF prog_exiting
       THEN /\ pc' = "done"
            /\ UNCHANGED <<cmd_pending, passes, it_start>>
       ELSE /\ it_start' = [state |-> state, cmd_pending |-> cmd_pending]
            /\ passes' = 0
            /\ IF cmd_pending \/ state = "Idle"
               THEN cmd_pending' = FALSE /\ pc' = "apply"
               ELSE cmd_pending' = cmd_pending /\ pc' = "check"
    /\ UNCHANGED <<cfg, dvars, last_op, last_ret, verify_pending, prog_exiting>>

\* One pass of the loop around data.apply_cmd(): Ok(true) repeats it.
ApplyCmdOn(Ins) ==
    /\ UNCHANGED <<rvars, qvars>>
    /\ pc = "apply"
    /\ \E in \in Ins :
         LET r == apply_cmd(Data, in) IN
         /\ SetData(r.d)
         /\ last_ret' = r.ret
         /\ pc' = CASE r.ret = "Ok_true" -> "apply"
                    [] r.ret = "panic" -> "panic"
                    [] OTHER -> "check"
    /\ last_op' = "apply_cmd"
    /\ passes' = passes + 1
    /\ UNCHANGED <<cfg, cmd_pending, verify_pending, it_start,
                   prog_exiting>>

ApplyCmd == ApplyCmdOn(ApplyIn)

\* data.check_completions()
CheckCompletions ==
    /\ UNCHANGED <<rvars, qvars>>
    /\ pc = "check"
    /\ \E in \in CheckIn :
         LET r == check_completions(Data, in) IN
         /\ SetData(r.d)
         /\ last_ret' = r.ret
         /\ pc' = IF r.ret = "panic" THEN "panic" ELSE "unlocked"
    /\ last_op' = "check_completions"
    /\ UNCHANGED <<cfg, cmd_pending, verify_pending, passes, it_start, prog_exiting>>

\* drop(data), the drop of the removed loads, the start of the reporter, the
\* sleep of 100 ms and the lock taken again.
Unlocked ==
    /\ UNCHANGED <<rvars, qvars>>
    /\ pc = "unlocked"
    /\ pc' = "health"
    /\ UNCHANGED <<cfg, dvars, last_op, last_ret, cmd_pending, verify_pending,
                   passes, it_start, prog_exiting>>

\* The health check: `due` is HEALTH_CHECK_INTV having passed.
HealthCheck ==
    /\ UNCHANGED <<rvars, qvars>>
    /\ pc = "health"
    /\ \E due \in BOOLEAN :
         IF ~cfg.bypass /\ (due \/ verify_pending)
         THEN verify_pending' = FALSE
         ELSE UNCHANGED verify_pending
    /\ pc' = "reload"
    /\ UNCHANGED <<cfg, dvars, last_op, last_ret, cmd_pending, passes,
                   it_start, prog_exiting>>

\* `if data.maybe_reload() { cmd_pending = true; verify_pending = true; }`
MaybeReloadOn(Ins(_)) ==
    /\ UNCHANGED <<rvars, qvars>>
    /\ pc = "reload"
    /\ \E in \in Ins(Data) :
         LET r == maybe_reload(Data, in) IN
         /\ SetData(r.d)
         /\ last_ret' = r.ret
         /\ pc' = IF r.ret = "panic" THEN "panic" ELSE "top"
         /\ IF r.ret = "true"
            THEN cmd_pending' = TRUE /\ verify_pending' = TRUE
            ELSE UNCHANGED <<cmd_pending, verify_pending>>
    /\ last_op' = "maybe_reload"
    /\ UNCHANGED <<cfg, passes, it_start, prog_exiting>>

MaybeReload == MaybeReloadOn(ReloadIn)

\* The supervisor: the unit of a running benchmark exits or fails.  Only
\* refresh() in check_completions reads the status, so a change at any time
\* before it is the change right before it.
UnitChange ==
    /\ UNCHANGED <<rvars, qvars>>
    /\ pc = "check"
    /\ \E u \in UnitState \ {"Running"} :
         \/ /\ bench_hashd = "Running"
            /\ bench_hashd' = u
            /\ UNCHANGED bench_iocost
         \/ /\ bench_iocost = "Running"
            /\ bench_iocost' = u
            /\ UNCHANGED bench_hashd
    /\ UNCHANGED <<cfg, state, warned_bench, warned_init, force_apply,
                   hashd_active, side_active, cmd, bench, bench_disk,
                   cmd_ack, cmd_ack_disk, oomd_running, sideloader_running,
                   slice_disabled, acts, last_op, last_ret, pc, cmd_pending,
                   verify_pending, passes, it_start, prog_exiting>>

\* The program-exiting flag is set (a worker thread panicked, or a signal).
\* Only the loop condition reads it, so it is set right before that.
ProgExit ==
    /\ UNCHANGED <<rvars, qvars>>
    /\ ~prog_exiting
    /\ pc = "top"
    /\ prog_exiting' = TRUE
    /\ UNCHANGED <<cfg, dvars, last_op, last_ret, pc, cmd_pending,
                   verify_pending, passes, it_start>>

Next ==
    \/ LoopTop
    \/ ApplyCmd
    \/ CheckCompletions
    \/ Unlocked
    \/ HealthCheck
    \/ MaybeReload
    \/ UnitChange
    \/ ProgExit

Spec == Init /\ [][Next]_vars

\* The runner with the commit of the ack file failing too, under the
\* configuration that enforces everything.
InitAck ==
    /\ Init
    /\ cfg.enforce_all /\ ~cfg.force_running

ApplyCmdAck == ApplyCmdOn(ApplyInAll)

NextAck ==
    \/ LoopTop
    \/ ApplyCmdAck
    \/ CheckCompletions
    \/ Unlocked
    \/ HealthCheck
    \/ MaybeReload
    \/ UnitChange
    \/ ProgExit

SpecAck == InitAck /\ [][NextAck]_vars

\* The runner with every config file changing under it, under the
\* configuration that enforces everything; the OOMD and sideloader applies
\* succeed.
ReloadInFiles(d) ==
    [bench : {Changed(b) : b \in BenchSet} \cup {NoChange},
     slice : {Changed(TRUE), Changed(FALSE), NoChange},
     side : BOOLEAN,
     oomd : BOOLEAN,
     cmd : NewCmds(d.cmd) \cup {NoChange},
     oomd_ok : {TRUE},
     sideloader_ok : {TRUE}]

MaybeReloadAny == MaybeReloadOn(ReloadInFiles)

NextReload ==
    \/ LoopTop
    \/ ApplyCmd
    \/ CheckCompletions
    \/ Unlocked
    \/ HealthCheck
    \/ MaybeReloadAny
    \/ UnitChange
    \/ ProgExit

SpecReload == InitAck /\ [][NextReload]_vars

\* --------------------------------------------------------- ReportWorker
runvars == <<cfg, dvars, last_op, last_ret, pc, cmd_pending, verify_pending,
             passes, it_start>>

\* The runner mutex is poisoned: a thread panicked holding it.
Poisoned == mutex = "poisoned" \/ pc = "panic"

\* The reconciler holds the runner mutex.
ReconcilerHolds == pc \notin {"unlocked", "done", "panic"}

\* ReportWorker::new: the two ReportFiles are made.
ReportWorker_new ==
    /\ rpc = "new"
    /\ \E ret \in Retentions :
         LET n == [f \in RF |->
                     ReportFile_new(Intv(f), RetentionOf(ret, f),
                                    fs[f].files, clk, TRUE)]
         IN /\ rf' = [f \in RF |-> n[f].rf]
            /\ fs' = [f \in RF |-> [fs[f] EXCEPT !.files = n[f].files]]
    /\ rpc' = "run_inner"
    /\ UNCHANGED <<qvars, kvars, runvars, prog_exiting, clk, r_next_at, r_now, base_report,
                   ops, summary, nticks, nfail, fed, iolat_retries,
                   iolat_cum_retries, nresets, woke, term,
                   mutex>>

\* run_inner up to the loop: the two latency readers are made under the
\* runner mutex; `new_ok` is IoLatReader::new returning Ok for both.  The
\* unwrap() of an Err panics with the mutex held, and run() catches the panic
\* and sets the program-exiting flag.
RunInnerStartOn(Oks) ==
    /\ rpc = "run_inner"
    /\ ~ReconcilerHolds
    /\ \E new_ok \in Oks :
         IF Poisoned
         THEN /\ rpc' = "panicked" /\ prog_exiting' = TRUE
              /\ UNCHANGED <<r_next_at, iolat_retries, iolat_cum_retries, mutex>>
         ELSE IF new_ok
         THEN /\ r_next_at' = clk + 1
              /\ iolat_retries' = BCC_RETRIES
              /\ iolat_cum_retries' = BCC_RETRIES
              /\ rpc' = "select"
              /\ UNCHANGED <<prog_exiting, mutex>>
         ELSE /\ rpc' = "panicked" /\ prog_exiting' = TRUE
              /\ mutex' = "poisoned"
              /\ UNCHANGED <<r_next_at, iolat_retries, iolat_cum_retries>>
    /\ UNCHANGED <<qvars, kvars, runvars, clk, r_now, base_report, rf, fs, ops, summary,
                   nticks, nfail, fed, nresets, woke, term>>

\* maybe_retry_iolat with an unbounded budget.
maybe_retry_iolat_unbounded(retries, reset_ok) ==
    [retries |-> retries, reset |-> TRUE, panic |-> ~reset_ok]

\* maybe_retry_iolat on the budget `retries`: the budget left, whether the
\* reader was reset, whether the call panicked.  `reset_ok` is iolat.reset()
\* returning Ok.
maybe_retry_iolat(retries, reset_ok) ==
    IF retries > 0 /\ ~prog_exiting
    THEN [retries |-> retries - 1, reset |-> TRUE, panic |-> ~reset_ok]
    ELSE [retries |-> retries, reset |-> FALSE, panic |-> TRUE]

\* The events select! wakes on: a line or a failure of either reader's
\* channel, the termination channel closed (the Reporter is dropped when
\* Runner::run returns or unwinds), the sleep over.
Events == {"iolat_ok", "iolat_err", "iolat_cum_ok", "iolat_cum_err", "term",
           "after"}

\* One round of the loop of run_inner up to the sleep: select!, then
\* `continue` while next_at + 500ms is not reached.  d is the time the
\* select! took; after Max rounds the clock is held.
SelectEv(ev, d, reset_ok, Max) ==
    LET r1 == IF ev = "iolat_err"
              THEN maybe_retry_iolat(iolat_retries, reset_ok)
              ELSE [retries |-> iolat_retries, reset |-> FALSE,
                    panic |-> FALSE]
        r2 == IF ev = "iolat_cum_err"
              THEN maybe_retry_iolat(iolat_cum_retries, reset_ok)
              ELSE [retries |-> iolat_cum_retries, reset |-> FALSE,
                    panic |-> FALSE]
    IN /\ rpc = "select"
       /\ (ev \notin {"iolat_err", "iolat_cum_err"}) => reset_ok
       /\ (ev = "term") => (term # None)
       /\ (nticks >= Max) => (d = 0)
       /\ clk' = clk + d
       /\ woke' = ev
       /\ iolat_retries' = r1.retries
       /\ iolat_cum_retries' = r2.retries
       /\ nresets' = [nresets EXCEPT
                        !["iolat"] = IF r1.reset THEN @ + 1 ELSE @,
                        !["iolat_cum"] = IF r2.reset THEN @ + 1 ELSE @]
       /\ IF r1.panic \/ r2.panic
          THEN rpc' = "panicked" /\ prog_exiting' = TRUE
          ELSE /\ UNCHANGED prog_exiting
               /\ IF ev = "term"
                  THEN rpc' = "exited"
                  ELSE IF clk' < r_next_at \/ nticks >= Max
                  THEN rpc' = "select"
                  ELSE rpc' = "base"
       /\ UNCHANGED <<qvars, runvars, r_next_at, r_now, base_report, rf, fs,
                      ops, summary, nticks, nfail, fed, term, mutex>>

\* The same round with the latency lines and the kicks left out of the
\* state.
SelectOn(Evs, Ds, Max) ==
    /\ \E ev \in Evs, d \in Ds, reset_ok \in BOOLEAN :
         SelectEv(ev, d, reset_ok, Max)
    /\ UNCHANGED kvars

\* `let now = unix_now()` and base_report(): the timestamp of the report is
\* read after `now`, `late` seconds after it; then the runner mutex is taken.
\* An Err makes run_inner `continue` with no base report.
BaseReportOn(Oks, Lates, Vs) ==
    /\ rpc = "base"
    /\ ~ReconcilerHolds
    /\ nticks' = nticks + 1
    /\ r_now' = clk
    /\ \E ok \in Oks, late \in Lates, v \in Vs :
         /\ clk' = clk + late
         /\ IF Poisoned
            THEN /\ rpc' = "panicked" /\ prog_exiting' = TRUE
                 /\ base_report' = None
                 /\ UNCHANGED nfail
            ELSE IF ok
            THEN /\ base_report' = Some([timestamp |-> clk + late,
                                         hashd_rps |-> v,
                                         iocost_vrate |-> Tenths(100),
                                         iolat |-> lat.iolat,
                                         iolat_cum |-> lat.iolat_cum])
                 /\ rpc' = "tick"
                 /\ UNCHANGED <<prog_exiting, nfail>>
            ELSE /\ nfail < MaxFail
                 /\ nfail' = nfail + 1
                 /\ base_report' = None
                 /\ rpc' = "select"
                 /\ UNCHANGED prog_exiting
    /\ UNCHANGED <<qvars, kvars, runvars, r_next_at, rf, fs, ops, summary, fed,
                   iolat_retries, iolat_cum_retries, nresets, woke, term,
                   mutex>>

\* The samples given to a ReportFile since its last summary, after a tick of
\* result t with a sample v.
Fed(g, t, v) ==
    IF t.summary = None THEN [n |-> g.n + 1, sum |-> g.sum + v]
    ELSE [n |-> 0, sum |-> 0]

\* The tick of the ReportFile f with the outcomes `in`.
TickOf(f, b, now, in) ==
    LET t == tick(rf[f], fs[f], b, now, in) IN
    /\ rf' = [rf EXCEPT ![f] = t.rf]
    /\ fs' = [fs EXCEPT ![f] = t.fs]
    /\ ops' = [ops EXCEPT ![f] = t.ops]
    /\ summary' = [summary EXCEPT ![f] = t.summary]
    /\ fed' = [fed EXCEPT ![f] = Fed(@, t, b.hashd_rps)]
    /\ nfail' = IF in = TickOk THEN nfail ELSE nfail + 1

\* `self.report_file.tick(&base_report, now)`
TickReportOn(Ins) ==
    /\ rpc = "tick"
    /\ \E in \in Ins :
         /\ (in # TickOk) => (nfail < MaxFail /\ r_now >= rf["report_file"].next_at)
         /\ TickOf("report_file", base_report[1], r_now, in)
    /\ term' = IF term = None THEN None ELSE Some(term[1] + 1)
    /\ rpc' = "tick_1min"
    /\ UNCHANGED <<qvars, kvars, runvars, prog_exiting, clk, r_next_at, r_now, base_report,
                   nticks, iolat_retries, iolat_cum_retries, nresets, woke,
                   mutex>>

\* `self.report_file_1min.tick(&base_report, now)` and
\* `next_at = unix_now() + 1`
TickReport1minOn(Ins) ==
    /\ rpc = "tick_1min"
    /\ \E in \in Ins :
         /\ (in # TickOk)
            => (nfail < MaxFail /\ r_now >= rf["report_file_1min"].next_at)
         /\ TickOf("report_file_1min", base_report[1], r_now, in)
    /\ r_next_at' = clk + 1
    /\ rpc' = "select"
    /\ UNCHANGED <<qvars, kvars, runvars, prog_exiting, clk, r_now, base_report, nticks,
                   iolat_retries, iolat_cum_retries, nresets, woke, term,
                   mutex>>

\* The runner in the unlocked section of its first iteration, which found
\* nothing to do.
FirstUnlocked ==
    /\ cfg = [force_running |-> FALSE, enforce_mem |-> TRUE,
              enforce_oomd |-> TRUE, enforce_all |-> TRUE, bypass |-> FALSE]
    /\ state = "Idle"
    /\ warned_bench = FALSE
    /\ warned_init = TRUE
    /\ force_apply = FALSE
    /\ bench_hashd = "None"
    /\ bench_iocost = "None"
    /\ hashd_active = FALSE
    /\ side_active = FALSE
    /\ cmd = [cmd_seq |-> 0, bench_hashd_seq |-> 0, bench_iocost_seq |-> 0,
              bench_hashd_balloon_size |-> 4, balloon_ratio |-> 50,
              cpu_headroom |-> 10]
    /\ bench = [hashd_seq |-> 0, iocost_seq |-> 0]
    /\ bench_disk = bench
    /\ cmd_ack = 0
    /\ cmd_ack_disk = 0
    /\ oomd_running = TRUE
    /\ slice_disabled = FALSE
    /\ sideloader_running = TRUE
    /\ acts = <<>>
    /\ last_op = "check_completions"
    /\ last_ret = "Ok"
    /\ pc = "unlocked"
    /\ cmd_pending = FALSE
    /\ verify_pending = FALSE
    /\ passes = 1
    /\ it_start = [state |-> "Idle", cmd_pending |-> TRUE]
    /\ prog_exiting = FALSE

\* The reporter thread alone: it is created in the first unlocked section of
\* the runner, and the runner mutex is free whenever the reporter asks for it.
InitReporter ==
    /\ FirstUnlocked
    /\ NoSweep
    /\ clk \in StartTimes
    /\ rpc = "new"
    /\ r_next_at = 0
    /\ r_now = 0
    /\ base_report = None
    /\ rf = [f \in RF |-> None]
    /\ \E old \in BOOLEAN :
         fs = [f \in RF |->
                 [files |-> IF old THEN CHOOSE o \in OldFiles(clk, f) : o # {}
                            ELSE {},
                  link |-> None, staging |-> None]]
    /\ ops = [f \in RF |-> <<>>]
    /\ summary = [f \in RF |-> None]
    /\ nticks = 0
    /\ nfail = 0
    /\ fed = [f \in RF |-> [n |-> 0, sum |-> 0]]
    /\ iolat_retries = 0
    /\ iolat_cum_retries = 0
    /\ nresets = [r \in Readers |-> 0]
    /\ woke = "none"
    /\ term = None
    /\ mutex = "ok"

InitRep == InitReporter /\ NoKick /\ NoLock /\ NoSingle

\* The program-exiting flag set from outside the reporter.
SetProgExiting ==
    /\ ~prog_exiting
    /\ rpc = "select"
    /\ prog_exiting' = TRUE
    /\ UNCHANGED <<qvars, runvars, rvars>>

TickReport == TickReportOn(TickIn)

TickReport1min == TickReport1minOn(TickIn)

\* The reporter with its readers delivering lines only.
Select ==
    SelectOn({"iolat_ok", "iolat_cum_ok", "term", "after"}, Skips, MaxTicks)

RunInnerStart == RunInnerStartOn({TRUE})

BaseReport == BaseReportOn(BOOLEAN, {0, 1}, {Tenths(100)})

NextRep ==
    \/ ReportWorker_new
    \/ RunInnerStart
    \/ Select
    \/ BaseReport
    \/ TickReport
    \/ TickReport1min

SpecRep == InitRep /\ [][NextRep]_vars

\* The reporter woken by its sleep every second for MaxSeconds rounds, with
\* hashd[0].rps of the k-th base report after a summary of the 60-second
\* ReportFile being 100 + k - 1.
SelectTick == SelectOn({"after"}, {1}, MaxSeconds)

BaseReportTick ==
    BaseReportOn({TRUE}, {0}, {Tenths(100 + fed["report_file_1min"].n)})

TickReportOk == TickReportOn({TickOk})

TickReport1minOk == TickReport1minOn({TickOk})

NextTick ==
    \/ ReportWorker_new
    \/ RunInnerStart
    \/ SelectTick
    \/ BaseReportTick
    \/ TickReportOk
    \/ TickReport1minOk

SpecTick == InitRep /\ [][NextTick]_vars

\* The reporter with readers whose channels fail and whose resets fail, and
\* with the program-exiting flag set from elsewhere.
SelectIoLat == SelectOn(Events, {0, 1}, MaxTicks)

BaseReportOk == BaseReportOn({TRUE}, {0}, {Tenths(100)})

NextIoLat ==
    \/ ReportWorker_new
    \/ RunInnerStart
    \/ SelectIoLat
    \/ BaseReportOk
    \/ TickReportOk
    \/ TickReport1minOk
    \/ SetProgExiting

SpecIoLat == InitRep /\ [][NextIoLat]_vars

\* The reporter with the lines of its two latency readers and the kicks of
\* the cumulative one.  A second has PerSec units of time.
PerSec == 20
\* Lines received and kicks sent in a run.
MaxLines == 2
MaxKicks == 2
\* The units of time a run spans.
KickWindow == 6

\* The kick sent as soon as 0.1 s have passed.
kick_due_at_least(now, kicked_at) == now - kicked_at >= PerSec \div 10

\* `dur.as_secs_f64() > 0.1`
kick_due(now, kicked_at) == now - kicked_at > PerSec \div 10

\* The arm of the per-second channel up to `match res`: whether kick() is
\* called, and iolat_cum_kicked_at after it.  duration_since is Err when
\* kicked_at is later than now.
kick_arm(now, kicked_at) ==
    IF now >= kicked_at
    THEN IF kick_due(now, kicked_at)
         THEN [kick |-> TRUE, kicked_at |-> now]
         ELSE [kick |-> FALSE, kicked_at |-> kicked_at]
    ELSE [kick |-> FALSE, kicked_at |-> now]

\* The time select! takes: one or three units pass, or the clock is set
\* back by a unit.
Dts == {-1, 1, 3}

KickStartTime == (StartMinute * 60 - 1) * PerSec + PerSec - 2

\* One round of the loop of run_inner with the time read in the arm of the
\* per-second channel, the kick, and the line parsed.  parse_ok is
\* parse_iolat_output returning Ok.
SelectKick ==
    \E ev \in {"iolat_ok", "iolat_err", "iolat_cum_ok", "after"},
       dt \in Dts, reset_ok \in BOOLEAN, parse_ok \in BOOLEAN :
      LET now == systime + dt
          ka == kick_arm(now, iolat_cum_kicked_at)
          got == ev \in {"iolat_ok", "iolat_cum_ok"}
          per_sec == ev \in {"iolat_ok", "iolat_err"}
      IN /\ now >= KickStartTime - 2
         /\ now <= KickStartTime + KickWindow
         /\ now \div PerSec >= clk
         /\ got => nlines < MaxLines
         /\ ~got => parse_ok
         /\ (per_sec /\ ka.kick) => Len(kicked) < MaxKicks
         /\ SelectEv(ev, now \div PerSec - clk, reset_ok, MaxTicks)
         /\ systime' = now
         /\ iolat_cum_kicked_at' =
              IF per_sec THEN ka.kicked_at ELSE iolat_cum_kicked_at
         /\ kicked' = IF per_sec /\ ka.kick
                      THEN Append(kicked, [at |-> now, set_back |-> set_back])
                      ELSE kicked
         /\ set_back' = IF ~per_sec THEN set_back
                        ELSE IF ka.kick THEN FALSE
                        ELSE set_back \/ now < iolat_cum_kicked_at
         /\ line' = IF got THEN Some([n |-> nlines + 1, parses |-> parse_ok])
                    ELSE None
         /\ nlines' = IF got THEN nlines + 1 ELSE nlines
         /\ lat' = IF ev = "iolat_ok" /\ parse_ok
                   THEN [lat EXCEPT !.iolat = nlines + 1]
                   ELSE IF ev = "iolat_cum_ok" /\ parse_ok
                   THEN [lat EXCEPT !.iolat_cum = nlines + 1]
                   ELSE lat
         /\ UNCHANGED <<lvars, xvars>>

InitKick ==
    /\ InitReporter
    /\ clk = StartMinute * 60 - 1
    /\ systime = KickStartTime
    /\ iolat_cum_kicked_at = 0
    /\ kicked = <<>>
    /\ set_back = FALSE
    /\ line = None
    /\ nlines = 0
    /\ lat = [iolat |-> 0, iolat_cum |-> 0]
    /\ NoLock
    /\ NoSingle

NextKick ==
    \/ ReportWorker_new
    \/ RunInnerStart
    \/ SelectKick
    \/ BaseReportOk
    \/ TickReportOk
    \/ TickReport1minOk

SpecKick == InitKick /\ [][NextKick]_vars

\* The runner and its reporter.  `reporter = Some(Reporter::new(..))` in the
\* unlocked section of the first iteration.
StartReporter ==
    /\ pc = "unlocked"
    /\ rpc = "none"
    /\ rpc' = "new"
    /\ \E t \in StartTimes : clk' = t
    /\ UNCHANGED <<qvars, kvars, runvars, prog_exiting, r_next_at, r_now, base_report, rf,
                   fs, ops, summary, nticks, nfail, fed, iolat_retries,
                   iolat_cum_retries, nresets, woke, term,
                   mutex>>

\* `data = self.data.lock().unwrap()` after the sleep: the unwrap panics when
\* the mutex is poisoned.
Relock ==
    /\ pc = "unlocked"
    /\ rpc \notin {"none", "new"}
    /\ pc' = IF Poisoned THEN "panic" ELSE "health"
    /\ UNCHANGED <<cfg, dvars, last_op, last_ret, cmd_pending, verify_pending,
                   passes, it_start, prog_exiting, rvars, qvars>>

\* Runner::run returns or unwinds: its locals are dropped, the guard first
\* and the Reporter after it, whose drop drops the sender of the termination
\* channel and joins the worker.
RunnerReturn ==
    /\ pc \in {"done", "panic"}
    /\ rpc # "none"
    /\ term = None
    /\ term' = Some(0)
    /\ UNCHANGED <<qvars, kvars, runvars, prog_exiting, clk, rpc, r_next_at, r_now,
                   base_report, rf, fs, ops, summary, nticks, nfail, fed,
                   iolat_retries, iolat_cum_retries, nresets, woke, mutex>>

RunInnerStartAny == RunInnerStartOn(BOOLEAN)

SelectExit == SelectOn({"after", "iolat_err", "term"}, {1}, MaxFail)

\* The steps of the reconciler.
RunnerNext ==
    \/ LoopTop
    \/ ApplyCmd
    \/ CheckCompletions
    \/ StartReporter
    \/ ReportWorker_new
    \/ Relock
    \/ HealthCheck
    \/ MaybeReload
    \/ RunnerReturn

\* The steps of the reporter thread.
ReporterNext ==
    \/ RunInnerStartAny
    \/ SelectExit
    \/ BaseReportOk
    \/ TickReportOk
    \/ TickReport1minOk

NextExit == RunnerNext \/ ReporterNext \/ UnitChange

InitExit ==
    /\ Init
    /\ cfg.enforce_all /\ ~cfg.force_running
    /\ cmd.bench_hashd_seq = 0 /\ cmd.bench_iocost_seq = 0
    /\ bench.hashd_seq = 0 /\ bench.iocost_seq = 0

SpecExit == InitExit /\ [][NextExit]_vars

\* The runner told to exit from outside, with a reporter whose readers
\* deliver lines.
SelectTerm == SelectOn({"iolat_ok", "term"}, {1}, MaxTicks)

ReporterTerm ==
    \/ RunInnerStart
    \/ SelectTerm
    \/ BaseReportOk
    \/ TickReportOk
    \/ TickReport1minOk

NextTerm == RunnerNext \/ ReporterTerm \/ UnitChange \/ ProgExit

SpecTerm == InitExit /\ [][NextTerm]_vars

\* Both threads are scheduled: a thread that can take a step takes one.
SpecExitFair ==
    SpecExit /\ WF_vars(RunnerNext) /\ WF_vars(ReporterNext)

\* ------------------------------------------- the runner mutex: both threads
\* Every variable but those of the lock protocol.
LockFrame ==
    UNCHANGED <<qvars, runvars, prog_exiting, clk, rpc, r_next_at, r_now,
                base_report, rf, fs, ops, summary, nticks, nfail, fed,
                iolat_retries, iolat_cum_retries, nresets, woke, term, mutex,
                systime, iolat_cum_kicked_at, kicked, set_back, line, nlines,
                lat, xvars>>

Threads == {"reconciler", "worker"}

\* The thread t holds the mutex: the guard that owns it is a local of a
\* function t is in.
HeldBy(t) ==
    IF t = "reconciler"
    THEN owner \in {"data", "rdata"} \/ (owner = "usages" /\ lpc = "usage_held")
    ELSE owner \in {"runner_rep", "runner_inner"}
         \/ (owner = "usages" /\ wpc = "usage_held")

\* `lock().unwrap()` into the guard g: it waits for the mutex to be free; on
\* a poisoned mutex lock() returns Err and the unwrap panics, which drops
\* the guard inside the error.
lock_unwrap(g) ==
    /\ owner = "none"
    /\ owner' = IF poison THEN "none" ELSE g
    /\ UNCHANGED poison

\* The guard g goes out of scope or is dropped.
drop_guard(g) ==
    /\ owner' = IF owner = g THEN "none" ELSE owner
    /\ UNCHANGED poison

\* A panic of the thread t unwinds: a guard it holds is dropped and poisons
\* the mutex.
unwind(t) ==
    /\ poison' = (poison \/ HeldBy(t))
    /\ owner' = IF HeldBy(t) THEN "none" ELSE owner

\* `while !prog_exiting()` (line 416).
LockLoopTest ==
    /\ lpc = "top"
    /\ lpc' = IF prog_exit THEN "return" ELSE "body"
    /\ UNCHANGED <<owner, poison, wpc, nusage, sender, prog_exit>>
    /\ LockFrame

\* apply_cmd and check_completions (417-437); apply_cmd panics when the
\* balloon or a benchmark cannot be handled (267, 302, 334).
LockBody ==
    /\ lpc = "body"
    /\ \E ok \in BOOLEAN :
         IF ok THEN lpc' = "drop_data" /\ UNCHANGED <<owner, poison>>
         ELSE lpc' = "drop_reporter" /\ unwind("reconciler")
    /\ UNCHANGED <<wpc, nusage, sender, prog_exit>>
    /\ LockFrame

\* A reconciler that goes on to its unlocked section with the guard alive.
DropData_kept ==
    /\ lpc = "drop_data"
    /\ lpc' = "drop_loads"
    /\ UNCHANGED <<owner, poison, wpc, nusage, sender, prog_exit>>
    /\ LockFrame

\* drop(data) (442).
DropData ==
    /\ lpc = "drop_data"
    /\ drop_guard("data")
    /\ lpc' = "drop_loads"
    /\ UNCHANGED <<wpc, nusage, sender, prog_exit>>
    /\ LockFrame

\* drop(removed_sysloads); drop(removed_sideloads); `if reporter.is_none()`
\* (443-446).
DropLoads ==
    /\ lpc = "drop_loads"
    /\ lpc' = IF sender = "none" THEN "new" ELSE "sleep"
    /\ UNCHANGED <<owner, poison, wpc, nusage, sender, prog_exit>>
    /\ LockFrame

\* Reporter::new calls ReportWorker::new in the reconciler's thread:
\* `let rdata = runner.data.lock().unwrap()` (719).
NewLock ==
    /\ lpc = "new"
    /\ lock_unwrap("rdata")
    /\ lpc' = IF poison THEN "drop_reporter" ELSE "new_held"
    /\ UNCHANGED <<wpc, nusage, sender, prog_exit>>
    /\ LockFrame

\* The configuration is copied and `drop(rdata)` (720-734).
NewDrop ==
    /\ lpc = "new_held"
    /\ drop_guard("rdata")
    /\ lpc' = "file"
    /\ nusage' = [nusage EXCEPT !["reconciler"] = 0]
    /\ UNCHANGED <<wpc, sender, prog_exit>>
    /\ LockFrame

\* ReportFile::new (427-455) makes a UsageTracker, whose new() calls
\* update() and with it read_usages: `sys_ok` is read_system_usage returning
\* Ok, and only then is the mutex asked for.  After the second file the
\* worker is spawned (969) and the Reporter holds the sender.
NewFile ==
    /\ lpc = "file"
    /\ IF nusage["reconciler"] = 2
       THEN /\ lpc' = "sleep"
            /\ sender' = "held"
            /\ wpc' = "run_inner"
            /\ UNCHANGED nusage
       ELSE /\ \E sys_ok \in BOOLEAN :
                 lpc' = IF sys_ok THEN "usage" ELSE "file"
            /\ nusage' = [nusage EXCEPT !["reconciler"] = @ + 1]
            /\ UNCHANGED <<sender, wpc>>
    /\ UNCHANGED <<owner, poison, prog_exit>>
    /\ LockFrame

\* read_usages in the reconciler's thread: `self.runner.data.lock().unwrap()`
\* (291).
NewUsageLock ==
    /\ lpc = "usage"
    /\ lock_unwrap("usages")
    /\ lpc' = IF poison THEN "drop_reporter" ELSE "usage_held"
    /\ UNCHANGED <<wpc, nusage, sender, prog_exit>>
    /\ LockFrame

\* all_svcs() returns and the temporary guard is dropped at the end of the
\* statement (291).
NewUsageDrop ==
    /\ lpc = "usage_held"
    /\ drop_guard("usages")
    /\ lpc' = "file"
    /\ UNCHANGED <<wpc, nusage, sender, prog_exit>>
    /\ LockFrame

\* sleep(Duration::from_millis(100)) (457).
LockSleep ==
    /\ lpc = "sleep"
    /\ lpc' = "lock"
    /\ UNCHANGED <<owner, poison, wpc, nusage, sender, prog_exit>>
    /\ LockFrame

\* `data = self.data.lock().unwrap()` (459).
LockRelock ==
    /\ lpc = "lock"
    /\ lock_unwrap("data")
    /\ lpc' = IF poison THEN "drop_reporter" ELSE "tail"
    /\ UNCHANGED <<wpc, nusage, sender, prog_exit>>
    /\ LockFrame

\* The health check and maybe_reload (460-490); maybe_reload panics when the
\* OOMD or sideloader configuration cannot be applied (145, 182).
LockTail ==
    /\ lpc = "tail"
    /\ \E ok \in BOOLEAN :
         IF ok THEN lpc' = "top" /\ UNCHANGED <<owner, poison>>
         ELSE lpc' = "drop_reporter" /\ unwind("reconciler")
    /\ UNCHANGED <<wpc, nusage, sender, prog_exit>>
    /\ LockFrame

\* Runner::run returns: the locals are dropped in the reverse order of their
\* declaration, `data` (414) before `reporter` (409).
LockReturn ==
    /\ lpc = "return"
    /\ drop_guard("data")
    /\ lpc' = "drop_reporter"
    /\ UNCHANGED <<wpc, nusage, sender, prog_exit>>
    /\ LockFrame

\* Reporter::drop: the sender is dropped (979-980), if there is a Reporter.
DropReporter ==
    /\ lpc = "drop_reporter"
    /\ IF sender = "none" THEN lpc' = "done" /\ UNCHANGED sender
       ELSE lpc' = "join" /\ sender' = "dropped"
    /\ UNCHANGED <<owner, poison, wpc, nusage, prog_exit>>
    /\ LockFrame

\* jh.join().unwrap() (981-982): returns once the worker thread has ended.
JoinWorker ==
    /\ lpc = "join"
    /\ wpc \in {"exited", "panicked"}
    /\ lpc' = "done"
    /\ UNCHANGED <<owner, poison, wpc, nusage, sender, prog_exit>>
    /\ LockFrame

\* The worker thread.  A panic in run_inner is caught by run(), which sets
\* the program-exiting flag (952-957).
\* run_inner: `let runner = self.runner.data.lock().unwrap()` (857).
InnerLock ==
    /\ wpc = "run_inner"
    /\ lock_unwrap("runner_inner")
    /\ wpc' = IF poison THEN "panicked" ELSE "readers"
    /\ prog_exit' = (prog_exit \/ poison)
    /\ UNCHANGED <<lpc, nusage, sender>>
    /\ LockFrame

\* The two IoLatReader::new(..).unwrap() and drop(runner) (858-863).
InnerReaders ==
    /\ wpc = "readers"
    /\ \E new_ok \in BOOLEAN :
         IF new_ok
         THEN /\ drop_guard("runner_inner")
              /\ wpc' = "select"
              /\ UNCHANGED prog_exit
         ELSE /\ unwind("worker")
              /\ wpc' = "panicked"
              /\ prog_exit' = TRUE
    /\ UNCHANGED <<lpc, nusage, sender>>
    /\ LockFrame

\* select! and the sleep test (870-927) up to base_report, on a branch
\* other than the termination channel's.
LockSelect ==
    /\ wpc = "select"
    /\ wpc' = "base"
    /\ UNCHANGED <<owner, poison, lpc, nusage, sender, prog_exit>>
    /\ LockFrame

\* select! takes the closed termination channel (910-915).
LockSelectTerm ==
    /\ wpc = "select"
    /\ sender = "dropped"
    /\ wpc' = "exited"
    /\ UNCHANGED <<owner, poison, lpc, nusage, sender, prog_exit>>
    /\ LockFrame

\* base_report: `let mut runner = self.runner.data.lock().unwrap()` (766).
BaseLock ==
    /\ wpc = "base"
    /\ lock_unwrap("runner_rep")
    /\ wpc' = IF poison THEN "panicked" ELSE "base_held"
    /\ prog_exit' = (prog_exit \/ poison)
    /\ UNCHANGED <<lpc, nusage, sender>>
    /\ LockFrame

\* base_report returns (767-813) and its guard goes out of scope; on Err
\* run_inner continues with the next round (933-938).
BaseReturn ==
    /\ wpc = "base_held"
    /\ drop_guard("runner_rep")
    /\ \E ok \in BOOLEAN : wpc' = IF ok THEN "tick" ELSE "select"
    /\ nusage' = [nusage EXCEPT !["worker"] = 0]
    /\ UNCHANGED <<lpc, sender, prog_exit>>
    /\ LockFrame

\* ReportFile::tick of the two files (941-942): a tick that is due fills in
\* the usages (549) through read_usages; `asks` is the tick being due and
\* read_system_usage returning Ok.
LockTick ==
    /\ wpc = "tick"
    /\ IF nusage["worker"] = 2
       THEN wpc' = "select" /\ UNCHANGED nusage
       ELSE /\ \E asks \in BOOLEAN : wpc' = IF asks THEN "usage" ELSE "tick"
            /\ nusage' = [nusage EXCEPT !["worker"] = @ + 1]
    /\ UNCHANGED <<owner, poison, lpc, sender, prog_exit>>
    /\ LockFrame

\* read_usages in the worker: `self.runner.data.lock().unwrap()` (291).
TickUsageLock ==
    /\ wpc = "usage"
    /\ lock_unwrap("usages")
    /\ wpc' = IF poison THEN "panicked" ELSE "usage_held"
    /\ prog_exit' = (prog_exit \/ poison)
    /\ UNCHANGED <<lpc, nusage, sender>>
    /\ LockFrame

\* all_svcs() returns and the temporary guard is dropped (291).
TickUsageDrop ==
    /\ wpc = "usage_held"
    /\ drop_guard("usages")
    /\ wpc' = "tick"
    /\ UNCHANGED <<lpc, nusage, sender, prog_exit>>
    /\ LockFrame

\* The program is told to exit: a signal handler calls set_prog_exiting().
LockSetExiting ==
    /\ ~prog_exit
    /\ prog_exit' = TRUE
    /\ UNCHANGED <<owner, poison, lpc, wpc, nusage, sender>>
    /\ LockFrame

ReconcilerLock ==
    \/ LockLoopTest
    \/ LockBody
    \/ DropData
    \/ DropLoads
    \/ NewLock
    \/ NewDrop
    \/ NewFile
    \/ NewUsageLock
    \/ NewUsageDrop
    \/ LockSleep
    \/ LockRelock
    \/ LockTail
    \/ LockReturn
    \/ DropReporter
    \/ JoinWorker

WorkerLock ==
    \/ InnerLock
    \/ InnerReaders
    \/ LockSelect
    \/ LockSelectTerm
    \/ BaseLock
    \/ BaseReturn
    \/ LockTick
    \/ TickUsageLock
    \/ TickUsageDrop

NextLock == ReconcilerLock \/ WorkerLock \/ LockSetExiting

InitLock == InitExit

\* Both threads are scheduled, a thread that waits for the mutex gets it when
\* it is free again and again (the reconciler sleeps 100 ms without it in
\* every iteration, the worker sleeps up to a second), and select! picks a
\* branch that is ready in every round.
SpecLock ==
    /\ InitLock /\ [][NextLock]_vars
    /\ SF_vars(ReconcilerLock)
    /\ SF_vars(WorkerLock)
    /\ SF_vars(LockSelectTerm)

\* ------------------------------------------------- all_svcs, read_usages
\* The unit names of rd_agent_intf and the cgroups of the slices, a path
\* being the sequence of its components.
HASHD_BENCH_SVC_NAME == "rd-hashd-bench.service"
IOCOST_BENCH_SVC_NAME == "rd-iocost-bench.service"
HASHD_A_SVC_NAME == "rd-hashd-A.service"
SIDELOAD_SVC_NAME == "rd-sideload-x.service"
Slice_Work_cgrp == <<"sys", "fs", "cgroup", "workload.slice">>
Slice_Side_cgrp == <<"sys", "fs", "cgroup", "sideload.slice">>

\* format!("{}/{}", cgrp, name)
cgrp_join(cgrp, name) == Append(cgrp, name)

\* RunnerData::all_svcs: the entries of the two benchmark handles, then
\* those of hashd_set and side_runner.
all_svcs(d) ==
    (IF d.bench_hashd # "None"
     THEN {<<HASHD_BENCH_SVC_NAME,
             cgrp_join(Slice_Work_cgrp, HASHD_BENCH_SVC_NAME)>>}
     ELSE {})
    \cup (IF d.bench_iocost # "None"
          THEN {<<IOCOST_BENCH_SVC_NAME,
                  cgrp_join(Slice_Work_cgrp, HASHD_BENCH_SVC_NAME)>>}
          ELSE {})
    \cup (IF d.hashd_active
          THEN {<<HASHD_A_SVC_NAME,
                  cgrp_join(Slice_Work_cgrp, HASHD_A_SVC_NAME)>>}
          ELSE {})
    \cup (IF d.side_active
          THEN {<<SIDELOAD_SVC_NAME,
                  cgrp_join(Slice_Side_cgrp, SIDELOAD_SVC_NAME)>>}
          ELSE {})

\* read_usages in the worker thread, which gets the runner mutex in the
\* reconciler's unlocked section: the usage of each service of all_svcs is
\* read from the cgroup of its entry (291-294).
ReadUsages ==
    /\ pc = "unlocked"
    /\ usages_of' = Some(all_svcs(Data))
    /\ usages_of' # usages_of
    /\ UNCHANGED <<qvars, runvars, prog_exiting, clk, rpc, r_next_at, r_now,
                   base_report, rf, fs, ops, summary, nticks, nfail, fed,
                   iolat_retries, iolat_cum_retries, nresets, woke, term,
                   mutex, systime, iolat_cum_kicked_at, kicked, set_back,
                   line, nlines, lat, lvars, svars, gvars>>

NextUsage == Next \/ ReadUsages

SpecUsage == Init /\ [][NextUsage]_vars

\* ------------------------------------------------- run_one, step by step
MaxStorRetries == 3

\* Every variable but those of run_one.
StorFrame ==
    UNCHANGED <<qvars, runvars, prog_exiting, clk, rpc, r_next_at, r_now,
                base_report, rf, fs, ops, summary, nticks, nfail, fed,
                iolat_retries, iolat_cum_retries, nresets, woke, term, mutex,
                systime, iolat_cum_kicked_at, kicked, set_back, line, nlines,
                lat, lvars, usages_of, gvars>>

\* A loop that gives up one failure late.
too_many_tries_late(tries, nr_stor_retries) == tries > nr_stor_retries + 1

\* `if tries > nr_stor_retries` (line 338).
too_many_tries(tries, nr_stor_retries) == tries > nr_stor_retries

\* `tries += 1; qos_cfg.apply(rctx)?` (lines 328-329): apply_ok is apply
\* returning Ok.
StorApply ==
    /\ st_pc = "loop"
    /\ st_tries' = st_tries + 1
    /\ \E apply_ok \in BOOLEAN :
         IF apply_ok
         THEN /\ st_log' = Append(st_log, "apply")
              /\ st_pc' = "run"
              /\ UNCHANGED st_ret
         ELSE /\ st_pc' = "done"
              /\ st_ret' = "Err"
              /\ UNCHANGED st_log
    /\ UNCHANGED <<st_retries, st_r, st_exiting>>
    /\ StorFrame

\* `let r = sjob.clone().run(rctx.disable_zswap())` (330).
StorRun ==
    /\ st_pc = "run"
    /\ \E ok \in BOOLEAN : st_r' = IF ok THEN "Ok" ELSE "Err"
    /\ st_log' = Append(st_log, "sjob.run")
    /\ st_pc' = "stop"
    /\ UNCHANGED <<st_retries, st_tries, st_ret, st_exiting>>
    /\ StorFrame

\* `rctx.stop_agent()` (331).
StorStop ==
    /\ st_pc = "stop"
    /\ st_log' = Append(st_log, "stop_agent")
    /\ st_pc' = "match"
    /\ UNCHANGED <<st_retries, st_tries, st_r, st_ret, st_exiting>>
    /\ StorFrame

\* `match r` (332-346).
StorMatch ==
    /\ st_pc = "match"
    /\ IF st_r = "Ok"
       THEN st_pc' = "study" /\ UNCHANGED st_ret
       ELSE IF st_exiting
       THEN st_pc' = "done" /\ st_ret' = "Err"
       ELSE IF too_many_tries(st_tries, st_retries)
       THEN st_pc' = "done" /\ st_ret' = "Err: failed too many times"
       ELSE st_pc' = "loop" /\ UNCHANGED st_ret
    /\ UNCHANGED <<st_retries, st_tries, st_r, st_log, st_exiting>>
    /\ StorFrame

\* The storage record is parsed and studied, and the QoS applied again
\* (350-361); each `?` can return an Err.
StorStudy ==
    /\ st_pc = "study"
    /\ \E ok \in BOOLEAN :
         IF ok
         THEN /\ st_log' = Append(st_log, "apply")
              /\ st_pc' = "prot"
              /\ UNCHANGED st_ret
         ELSE /\ st_pc' = "done"
              /\ st_ret' = "Err"
              /\ UNCHANGED st_log
    /\ UNCHANGED <<st_retries, st_tries, st_r, st_exiting>>
    /\ StorFrame

\* The protection benchmark, stop_agent and the record (362-389): a failed
\* protection benchmark gives the default record.
StorProt ==
    /\ st_pc = "prot"
    /\ st_log' = st_log \o <<"pjob.run", "stop_agent">>
    /\ st_pc' = "done"
    /\ st_ret' = "Ok"
    /\ UNCHANGED <<st_retries, st_tries, st_r, st_exiting>>
    /\ StorFrame

\* A signal sets the program-exiting flag during run_one.
StorExit ==
    /\ st_pc \notin {"none", "done"}
    /\ ~st_exiting
    /\ st_exiting' = TRUE
    /\ UNCHANGED <<st_pc, st_retries, st_tries, st_r, st_log, st_ret>>
    /\ StorFrame

NextStor ==
    \/ StorApply
    \/ StorRun
    \/ StorStop
    \/ StorMatch
    \/ StorStudy
    \/ StorProt
    \/ StorExit

\* run_one is entered (322-326) with the retries of the job.
InitStor ==
    /\ InitRunner
    /\ cfg.enforce_all /\ ~cfg.force_running
    /\ cmd.bench_hashd_seq = 0 /\ cmd.bench_iocost_seq = 0
    /\ bench.hashd_seq = 0 /\ bench.iocost_seq = 0
    /\ NoWorker
    /\ NoSweep
    /\ NoUsage
    /\ NoRing
    /\ st_pc = "loop"
    /\ st_retries \in 0..MaxStorRetries
    /\ st_tries = 0
    /\ st_r = "none"
    /\ st_log = <<>>
    /\ st_ret = "none"
    /\ st_exiting \in BOOLEAN

SpecStor == InitStor /\ [][NextStor]_vars

\* ------------------------------------------- report_ring.rs of resctl-demo
\* The rings of ReportRingSet::new (132-157) with the minute scaled down:
\* sec_ring has cadence 1, tail cadence RingMinute and retention
\* SecRetention (args().rep_retention); min_ring has cadence and tail
\* cadence RingMinute and retention MinRetention (rep_1min_retention).
RingMinute == 2
SecRetention == 3
MinRetention == 4

\* Report times are Unix seconds: the first update is at RingT0 and the
\* last one no later than RingT0 + MaxRingSpan.
RingT0 == 100
MaxRingSpan == 4

\* The arguments of fill: stride in 1..MaxStride, nr_slots in 0..MaxSlots.
MaxStride == 2
MaxSlots == 2

RingNames == {"sec", "min"}

RingCfg ==
    [sec |-> [cadence |-> 1, tail_cadence |-> RingMinute,
              retention |-> SecRetention],
     min |-> [cadence |-> RingMinute, tail_cadence |-> RingMinute,
              retention |-> MinRetention]]

\* The ReportRing that fill is handed: its records and its cadence.
SrcRing(r) == [ring |-> rings[r], cadence |-> RingCfg[r].cadence]

\* `while let Some(rec) = self.ring.front()` (77-82): the records older
\* than start leave from the front.
RECURSIVE pop_old(_, _)
pop_old(ring, start) ==
    IF Len(ring) > 0 /\ Head(ring) < start
    THEN pop_old(Tail(ring), start)
    ELSE ring

\* `for at in (load_from..=now).step_by(cadence)` (91-104): the report of
\* `at` is pushed when its file loads (at \in have) and skipped otherwise.
RECURSIVE load_reports(_, _, _, _, _)
load_reports(ring, at, now, cadence, have) ==
    IF at > now THEN ring
    ELSE load_reports(IF at \in have THEN Append(ring, at) ELSE ring,
                      at + cadence, now, cadence, have)

\* `now / cadence * cadence` and the start of the retained span (74-75).
ring_now_of(c, now) == (now \div c.cadence) * c.cadence

ring_start_of(c, now) ==
    ((ring_now_of(c, now) - c.retention) \div c.tail_cadence) * c.tail_cadence

\* The first `at` that update tries to load (84-87).
load_from_of(c, kept, now) ==
    IF Len(kept) > 0 THEN kept[Len(kept)] + c.cadence ELSE ring_start_of(c, now)

\* ReportRing::update (65-105) of a ring with parameters c, when the report
\* files of the times in have can be loaded.
ReportRing_update(c, ring, now, have) ==
    LET kept == pop_old(ring, ring_start_of(c, now))
    IN  load_reports(kept, load_from_of(c, kept, now), ring_now_of(c, now),
                     c.cadence, have)

\* At most MaxMissing of the report files an update tries to load are
\* missing.
MaxMissing == 1

\* The times update tries to load.
LoadTimes(c, ring, now) ==
    LET kept == pop_old(ring, ring_start_of(c, now))
    IN  {at \in load_from_of(c, kept, now)..ring_now_of(c, now) :
            (at - load_from_of(c, kept, now)) % c.cadence = 0}

\* The sets of report files that update may find.
Loadable(c, ring, now) ==
    {have \in SUBSET LoadTimes(c, ring, now) :
        Cardinality(LoadTimes(c, ring, now) \ have) <= MaxMissing}

\* The `now` ReportRingSet::update hands to min_ring (162).
min_ring_now(now) == now - RingCfg.sec.retention - RingMinute

\* sel of a report and acc, aggr of T: a T is the records that went into it
\* and the number of samples it was divided by.
sel(at) == [ats |-> <<at>>, by |-> 0]

acc(dacc, data) == [dacc EXCEPT !.ats = @ \o data.ats]

aggr(dacc, nr) == [dacc EXCEPT !.by = nr]

\* ReportData::align (219-221).
align(rd, at) == (at \div rd.step) * rd.step

\* ReportData::clear (223-227).
clear(rd) ==
    [rd EXCEPT !.next_src_at = 0, !.tip = TipDefault, !.data_ring = <<>>,
               !.accs = <<>>]

\* ReportDataTip::consume (168-180): the value it returns and the tip it
\* leaves.
consume(tip, step) ==
    [v   |-> IF tip.nr_samples > 0
             THEN Some(<<tip.data, tip.nr_samples>>)
             ELSE None,
     tip |-> [at |-> tip.at + step, data |-> TipDefault.data,
              nr_samples |-> 0]]

\* consume, aggr and push_back (269-276, 281-288).
push_tip(rd) ==
    LET c == consume(rd.tip, rd.step)
        v == IF c.v = None THEN None ELSE Some(aggr(c.v[1][1], c.v[1][2]))
    IN  [rd EXCEPT !.tip = c.tip, !.data_ring = Append(@, v)]

\* `while self.tip.at < at` (268-277).
RECURSIVE catch_up(_, _)
catch_up(rd, at) == IF rd.tip.at < at THEN catch_up(push_tip(rd), at) ELSE rd

\* A fill that takes the newest record again the next time.
next_src_at_same(newest, src_cadence) == newest

\* `self.next_src_at = newest + self.src_cadence` (253).
next_src_at_after(newest, src_cadence) == newest + src_cadence

\* The scan from the back (246-252): the index of the oldest record of the
\* run of records at the back that are not before next_src_at, Len + 1 when
\* there is none.
RECURSIVE scan_start(_, _, _)
scan_start(ring, i, next_src_at) ==
    IF i = 0 THEN 1
    ELSE IF ring[i] < next_src_at THEN i + 1
    ELSE scan_start(ring, i - 1, next_src_at)

\* The body of the loop over the new records (257-289).
fill_rec(rd, stride, rec_at) ==
    LET at == align(rd, rec_at)
        r1 == IF rd.tip.at = 0 THEN [rd EXCEPT !.tip.at = at] ELSE rd
        r2 == catch_up(r1, at)
        r3 == [r2 EXCEPT !.tip.data = acc(@, sel(rec_at)),
                         !.tip.nr_samples = @ + 1,
                         !.accs = Append(@, rec_at)]
    IN  IF rec_at % rd.step = (stride - 1) * rd.src_cadence
        THEN push_tip(r3)
        ELSE r3

\* `for i in start..src.ring.len()` (256-290).
RECURSIVE fill_from(_, _, _, _)
fill_from(rd, stride, ring, i) ==
    IF i > Len(ring) THEN rd
    ELSE fill_from(fill_rec(rd, stride, ring[i]), stride, ring, i + 1)

\* The truncation (293-295).
truncate(rd, nr_slots) ==
    IF Len(rd.data_ring) > nr_slots
    THEN [rd EXCEPT !.data_ring = SubSeq(@, Len(@) - nr_slots + 1, Len(@))]
    ELSE rd

\* ReportData::fill (226-296).
fill(rd, stride, nr_slots, src) ==
    LET r0 == IF \/ stride # rd.stride
                 \/ nr_slots # rd.nr_slots
                 \/ rd.src_cadence # src.cadence
              THEN [clear(rd) EXCEPT !.stride = stride,
                                     !.nr_slots = nr_slots,
                                     !.src_cadence = src.cadence,
                                     !.step = stride * src.cadence]
              ELSE rd
    IN  IF Len(src.ring) = 0 THEN r0
        ELSE LET newest == src.ring[Len(src.ring)]
                 ff == align(r0, newest) - nr_slots * r0.step
                 from == IF r0.next_src_at > ff THEN r0.next_src_at ELSE ff
                 start == scan_start(src.ring, Len(src.ring), from)
                 r1 == [r0 EXCEPT !.next_src_at =
                                      next_src_at_after(newest, r0.src_cadence)]
             IN  truncate(fill_from(r1, stride, src.ring, start), nr_slots)

\* Every variable but those of the rings.
RingFrame ==
    UNCHANGED <<qvars, runvars, prog_exiting, clk, rpc, r_next_at, r_now,
                base_report, rf, fs, ops, summary, nticks, nfail, fed,
                iolat_retries, iolat_cum_retries, nresets, woke, term, mutex,
                systime, iolat_cum_kicked_at, kicked, set_back, line, nlines,
                lat, lvars, svars, usages_of>>

\* ReportRingSet::update (160-173) at a later time: both rings are updated,
\* each with the report files that can be loaded then.
RingSetUpdate ==
    \E dt \in 1..2 :
        /\ ring_now + dt <= RingT0 + MaxRingSpan
        /\ ring_now' = ring_now + dt
        /\ \E hs \in Loadable(RingCfg.sec, rings.sec, ring_now'),
              hm \in Loadable(RingCfg.min, rings.min,
                              min_ring_now(ring_now')) :
             rings' = [sec |-> ReportRing_update(RingCfg.sec, rings.sec,
                                                 ring_now', hs),
                       min |-> ReportRing_update(RingCfg.min, rings.min,
                                                 min_ring_now(ring_now'), hm)]
        /\ UNCHANGED <<rdata, last_src>>
        /\ RingFrame

\* One call of ReportData::fill.
Fill ==
    \E r \in RingNames, stride \in 1..MaxStride, nr_slots \in 0..MaxSlots :
        /\ rdata' = fill(rdata, stride, nr_slots, SrcRing(r))
        /\ last_src' = Some(r)
        /\ UNCHANGED <<ring_now, rings>>
        /\ RingFrame

NextRing == RingSetUpdate \/ Fill

\* ReportRingSet::new and ReportData::new, before the first update.
InitRing ==
    /\ InitRunner
    /\ cfg.enforce_all /\ ~cfg.force_running
    /\ cmd.bench_hashd_seq = 0 /\ cmd.bench_iocost_seq = 0
    /\ bench.hashd_seq = 0 /\ bench.iocost_seq = 0
    /\ NoWorker
    /\ NoSweep
    /\ NoUsage
    /\ NoStor
    /\ ring_now = RingT0 - 1
    /\ rings = [r \in RingNames |-> <<>>]
    /\ rdata = ReportData_new
    /\ last_src = None

SpecRing == InitRing /\ [][NextRing]_vars

\* ------------------------------------------------ the QoS sweep: actions
MaxIntvs == 5
MaxStorFails == 2
MaxRunFails == 2

\* The properties of a job spec.
JobSpec(vrate_min, vrate_max, vrate_intvs, dither, dither_dist, ovrs,
        allow_fail, ign_min_perf, retries) ==
    [vrate_min |-> vrate_min, vrate_max |-> vrate_max,
     vrate_intvs |-> vrate_intvs, dither |-> dither,
     dither_dist |-> dither_dist, ovrs |-> ovrs, allow_fail |-> allow_fail,
     ign_min_perf |-> ign_min_perf, retries |-> retries]

\* An explicit override of the job spec, and the vrate points of the sweeps.
OvrExplicit == IoCostQoSOvr(FALSE, Some(50 * VUnit), Some(90 * VUnit), FALSE)
OvrPoint(v) == IoCostQoSOvr(FALSE, Some(v * VUnit), Some(v * VUnit), FALSE)

\* iocost model parameters and QoS parameters of the bench knobs.
Models == {[min_vrate |-> 1 * VUnit], [min_vrate |-> 3 * VUnit]}
QoSs == {[min |-> 50 * VUnit, max |-> 100 * VUnit, rpct |-> p] : p \in {95, 99}}
Knobs == [model : Models, qos : QoSs]

\* The job specs of the planning runs.
PlanSpecs ==
    {JobSpec(vmin, vmax, n, d[1], d[2], os, FALSE, FALSE, DFL_RETRIES) :
       vmin \in {None, Some(VUnit \div 2), Some(VUnit), Some(2 * VUnit),
                 Some(4 * VUnit)},
       vmax \in {None, Some(3 * VUnit), Some(4 * VUnit), Some(10 * VUnit)},
       n \in 0..MaxIntvs,
       d \in {<<FALSE, None>>, <<TRUE, None>>, <<TRUE, Some(VUnit \div 4)>>},
       os \in {<<>>, <<OvrExplicit>>}}

\* A previous record of the planning runs: only its dither_dist is read.
PlanPrevs ==
    {None} \cup
    {Some(IoCostQoSRecord(m, q, 1, <<>>, dd, <<>>)) :
       m \in Models, q \in QoSs, dd \in {None, Some(-(VUnit \div 2))}}

\* The draw of gen_range over an infinite click is not modelled.
Drawable(spec, pd) ==
    (/\ spec.dither
     /\ spec.dither_dist = None
     /\ pd = None \/ pd[1].dither_dist = None)
    => ~(spec.vrate_intvs = 1 /\ spec.vrate_min \notin {None, Some(0)})

\* Before parse, nothing of the sweep is set.
BeforeParse ==
    /\ qpc = "spec"
    /\ job = None
    /\ prev_matches_l = FALSE
    /\ prev_rec = None
    /\ run_i = 0
    /\ runs_l = <<>>
    /\ inc_records = <<>>
    /\ benched = <<>>
    /\ nr_failed = 0
    /\ run_one_ret = None
    /\ q_ret = None
    /\ bench_exiting = FALSE

\* rd-agent takes no step in the runs of resctl-bench: its variables are held.
AgentHeld == FirstUnlocked /\ NoReporter

InitPlan ==
    /\ AgentHeld
    /\ jspec \in PlanSpecs
    /\ prev_data \in PlanPrevs
    /\ Drawable(jspec, prev_data)
    /\ bench_knobs \in {k \in Knobs : k.qos.rpct = 95}
    /\ mem_profile = 1
    /\ BeforeParse

\* IoCostQoSBench::parse
Parse ==
    /\ qpc = "spec"
    /\ \E r \in 1..3 :
         LET res == parse(jspec, prev_data, r)
         IN /\ q_ret' = res
            /\ job' = IF res.ok THEN res.v ELSE None
            /\ qpc' = IF res.ok THEN "run" ELSE "parse_err"
    /\ UNCHANGED <<runvars, prog_exiting, rvars, jspec, prev_data, bench_knobs,
                   mem_profile, prev_matches_l, prev_rec, run_i, runs_l,
                   inc_records, benched, nr_failed, run_one_ret,
                   bench_exiting>>

NextPlan == Parse
SpecPlan == InitPlan /\ [][NextPlan]_vars

\* run up to the loop over self.runs: the previous record, the overrides
\* marked to skip, and the test of nr_to_run.  The bench knobs have
\* iocost_seq > 0.
RunStart ==
    /\ qpc = "run"
    /\ LET pm == IF prev_data # None
                 THEN prev_matches(prev_data[1], mem_profile, bench_knobs)
                 ELSE TRUE
           prec == IF prev_data # None
                   THEN prev_data[1]
                   ELSE IoCostQoSRecord(bench_knobs.model, bench_knobs.qos, 0,
                                        <<>>, job.dither_dist, <<>>)
           rs == IF job.ign_min_perf
                 THEN job.runs
                 ELSE [k \in 1..Len(job.runs) |->
                         skip_or_adj(job.runs[k],
                                     iocost_min_vrate(bench_knobs.model))]
           n == nr_to_run(rs, prec)
       IN /\ prev_matches_l' = pm
          /\ prev_rec' = prec
          /\ job' = [job EXCEPT !.runs = rs]
          /\ IF n > 0 /\ ~(pm \/ n = Len(rs))
             THEN /\ qpc' = "done"
                  /\ q_ret' = Err("existing result doesn't match")
                  /\ UNCHANGED <<run_i, runs_l>>
             ELSE /\ qpc' = "loop"
                  /\ q_ret' = None
                  /\ run_i' = 1
                  /\ runs_l' = <<>>
    /\ UNCHANGED <<runvars, prog_exiting, rvars, jspec, prev_data, bench_knobs,
                   mem_profile, inc_records, benched, nr_failed, run_one_ret,
                   bench_exiting>>

\* What the agent's bench file can hold as iocost.qos after a run: the
\* target, or the base QoS left as it was.
ReadBacks(ovr) ==
    {bench_knobs.qos} \cup
    (IF ovr.off THEN {} ELSE {calc(bench_knobs.qos, ovr)[1]})

\* One step of the loop over self.runs: a planned override taken from the
\* previous record or skipped, or one call of run_one in the inner loop.
RunLoopOn(Fails) ==
    /\ qpc = "loop"
    /\ run_i <= Len(job.runs)
    /\ LET ovr == job.runs[run_i]
           m == find_matching_rec_run(ovr, prev_rec)
       IN IF m # None
          THEN /\ runs_l' = Append(runs_l, Some(m[1]))
               /\ run_i' = run_i + 1
               /\ UNCHANGED <<qpc, prev_rec, inc_records, benched, nr_failed,
                              run_one_ret, q_ret>>
          ELSE IF ovr.skip
          THEN /\ runs_l' = Append(runs_l, None)
               /\ run_i' = run_i + 1
               /\ UNCHANGED <<qpc, prev_rec, inc_records, benched, nr_failed,
                              run_one_ret, q_ret>>
          ELSE \E fails \in Fails, qos \in ReadBacks(ovr) :
                 LET r == run_one(ovr, job.retries, fails, bench_exiting, qos,
                                  Len(benched) + 1, mem_profile)
                 IN /\ ~r.ok => nr_failed < MaxRunFails
                    /\ benched' = Append(benched, ovr)
                    /\ run_one_ret' = r
                    /\ IF r.ok
                       THEN /\ UNCHANGED nr_failed
                            /\ IF qos_differs(r.v, calc(bench_knobs.qos, ovr))
                               THEN /\ qpc' = "done"
                                    /\ q_ret' = Err("result qos != target qos")
                                    /\ UNCHANGED <<prev_rec, inc_records,
                                                   runs_l, run_i>>
                               ELSE /\ prev_rec' = inc_runs_push(prev_rec, r.v)
                                    /\ inc_records' =
                                         Append(inc_records, prev_rec')
                                    /\ runs_l' = Append(runs_l, Some(r.v))
                                    /\ run_i' = run_i + 1
                                    /\ UNCHANGED <<qpc, q_ret>>
                       ELSE /\ nr_failed' = nr_failed + 1
                            /\ UNCHANGED <<prev_rec, inc_records, run_i>>
                            /\ IF ~job.allow_fail \/ bench_exiting
                               THEN /\ qpc' = "done"
                                    /\ q_ret' = r
                                    /\ UNCHANGED runs_l
                               ELSE /\ runs_l' = Append(runs_l, None)
                                    /\ UNCHANGED <<qpc, q_ret>>
    /\ UNCHANGED <<runvars, prog_exiting, rvars, jspec, prev_data, bench_knobs,
                   mem_profile, job, prev_matches_l, bench_exiting>>

RunLoop == RunLoopOn(0..MaxStorFails)

\* run after the loop: the runs resized and the consolidated record
\* returned.
RunFinish ==
    /\ qpc = "loop"
    /\ run_i > Len(job.runs)
    /\ qpc' = "done"
    /\ q_ret' = Ok(IoCostQoSRecord(bench_knobs.model, bench_knobs.qos,
                                   mem_profile,
                                   resize(runs_l, Len(job.runs)),
                                   job.dither_dist, <<>>))
    /\ UNCHANGED <<runvars, prog_exiting, rvars, jspec, prev_data, bench_knobs,
                   mem_profile, job, prev_matches_l, prev_rec, run_i, runs_l,
                   inc_records, benched, nr_failed, run_one_ret,
                   bench_exiting>>

\* A signal sets the program-exiting flag of resctl-bench.
BenchExit ==
    /\ qpc = "loop"
    /\ ~bench_exiting
    /\ bench_exiting' = TRUE
    /\ UNCHANGED <<runvars, prog_exiting, rvars, jspec, prev_data, bench_knobs,
                   mem_profile, qpc, job, prev_matches_l, prev_rec, run_i,
                   runs_l, inc_records, benched, nr_failed, run_one_ret,
                   q_ret>>

\* The runs of a previous record, by the overrides of its runs (None for an
\* empty slot) and of its inc_runs; its runs carry periods below 0, the
\* k-th of rec_runs the period -k.
PrevRecord(m, q, p, os, ios, dd) ==
    LET n == Len(SelectSeq(os, LAMBDA x : x # None))
        idx(k) == Len(SelectSeq(SubSeq(os, 1, k), LAMBDA x : x # None))
    IN IoCostQoSRecord(m, q, p,
         [k \in 1..Len(os) |->
            IF os[k] = None THEN None
            ELSE Some(IoCostQoSRecordRun(-idx(k), os[k][1],
                                         calc(q, os[k][1]), p))],
         dd,
         [k \in 1..Len(ios) |->
            IoCostQoSRecordRun(-(n + k), ios[k], calc(q, ios[k]), p)])

\* The shapes of the previous records of the sweeps: <<runs, inc_runs>>.
PrevShapes ==
    {<<<<>>, <<>>>>,
     <<<<Some(OvrOff), Some(OvrPoint(4))>>, <<>>>>,
     <<<<>>, <<OvrOff, OvrPoint(2)>>>>,
     <<<<None, Some(OvrPoint(4))>>, <<OvrPoint(4), OvrExplicit>>>>,
     <<<<Some(OvrOff), Some(OvrPoint(4)), Some(OvrPoint(2))>>, <<>>>>,
     <<<<None, Some(OvrPoint(10))>>, <<OvrPoint(10)>>>>}

SweepPrevs ==
    {None} \cup
    {Some(PrevRecord(m, q, p, sh[1], sh[2], None)) :
       m \in Models, q \in QoSs, p \in {1, 2}, sh \in PrevShapes}

\* The job specs of the sweeps: vrate points 4 and 2, or 4 alone, after the
\* off baseline and the explicit overrides.
SweepSpecs ==
    {JobSpec(Some(2 * VUnit), Some(4 * VUnit), n, FALSE, None, os, af, ign,
             rt) :
       n \in {1, 2}, os \in {<<>>, <<OvrExplicit>>, <<OvrExplicit, OvrExplicit>>},
       af \in BOOLEAN, ign \in BOOLEAN, rt \in {0, DFL_RETRIES}}

InitSweep ==
    /\ AgentHeld
    /\ jspec \in SweepSpecs
    /\ prev_data \in SweepPrevs
    /\ bench_knobs \in {k \in Knobs : k.qos.rpct = 95}
    /\ mem_profile = 1
    /\ BeforeParse

NextSweep ==
    \/ Parse
    \/ RunStart
    \/ RunLoop
    \/ RunFinish
    \/ BenchExit

SpecSweep == InitSweep /\ [][NextSweep]_vars

TypeOK ==
    /\ cfg \in CfgSet
    /\ state \in RunnerState
    /\ bench_hashd \in Handle /\ bench_iocost \in Handle
    /\ cmd \in CmdSet /\ bench \in BenchSet /\ bench_disk \in BenchSet
    /\ cmd_ack \in 0..MaxCmdSeq /\ cmd_ack_disk \in 0..MaxCmdSeq
    /\ \A i \in DOMAIN acts : acts[i] \in STRING \X Nat
    /\ passes \in 0..2
    /\ pc \in {"top", "apply", "check", "unlocked", "health", "reload",
               "done", "panic"}

\* ------------------------------------------------------------ properties
\* The log `a` holds a call named n.
Did(a, n) == \E i \in DOMAIN a : a[i][1] = n

\* The log `a` holds a call named n1 and, after it, a call named n2.
Before(a, n1, n2) ==
    \E i, j \in DOMAIN a : i < j /\ a[i][1] = n1 /\ a[j][1] = n2

\* A step of ApplyCmd is a step from pc = "apply", a step of CheckCompletions
\* a step from pc = "check" that leaves it (UnitChange stays there).
ApplyStep == pc = "apply"

CheckStep == pc = "check" /\ pc' # "check"

\* An apply_cmd pass that returned Ok: its kernel-knob updates and the
\* calls of its arm succeeded.
PassOk == last_ret' \in {"Ok_true", "Ok_false"}

IoCostRequested == cmd.bench_iocost_seq > bench.iocost_seq

HashdRequested == cmd.bench_hashd_seq > bench.hashd_seq

NoHandles == bench_hashd = "None" /\ bench_iocost = "None"

\* C1: from Idle, an apply_cmd pass with cmd.bench_iocost_seq >
\* bench.iocost_seq whose service start succeeds ends in BenchIoCost with the
\* iocost-bench handle present (and no hashd-bench handle), whether or not a
\* hashd benchmark is requested too and whether or not Running is allowed.
C1_IoCostFirst ==
    [][(ApplyStep /\ state = "Idle" /\ IoCostRequested /\ PassOk)
        => (state' = "BenchIoCost" /\ bench_iocost' # "None"
            /\ bench_hashd' = "None" /\ pc' = "check")]_vars

\* C1 witness: the pass started the iocost benchmark although the hashd
\* benchmark was requested too and could have been started.
C1_Witness ==
    /\ pc = "check" /\ last_op = "apply_cmd" /\ it_start.state = "Idle"
    /\ state = "BenchIoCost" /\ bench_iocost = "Running"
    /\ IoCostRequested /\ HashdRequested
    /\ (bench.iocost_seq > 0 \/ cfg.force_running)

\* C2: BenchHashd is entered only from Idle, by an apply_cmd pass with no
\* iocost request, a hashd request and (bench.iocost_seq > 0 or
\* force_running); that pass sets the balloon to cmd.bench_hashd_balloon_size,
\* then stops OOMD, then starts the hashd-bench service.  With a hashd request
\* only, bench.iocost_seq = 0 and force_running off, the pass leaves the runner
\* Idle and starts nothing.
C2_HashdStart ==
    [][/\ (state' = "BenchHashd" /\ state # "BenchHashd")
          => /\ ApplyStep /\ state = "Idle"
             /\ ~IoCostRequested /\ HashdRequested
             /\ (bench.iocost_seq > 0 \/ cfg.force_running)
             /\ \E i, j, k \in DOMAIN acts' :
                  /\ i < j /\ j < k
                  /\ acts'[i] = <<"set_balloon", cmd.bench_hashd_balloon_size>>
                  /\ acts'[j][1] = "stop_oomd"
                  /\ acts'[k][1] = "start_hashd_bench"
             /\ ~oomd_running' /\ bench_hashd' = "Running"
             /\ bench_iocost' = "None"
       /\ (/\ ApplyStep /\ state = "Idle" /\ ~IoCostRequested /\ HashdRequested
           /\ bench.iocost_seq = 0 /\ ~cfg.force_running)
          => /\ state' = "Idle" /\ NoHandles'
             /\ ~Did(acts', "start_hashd_bench")
             /\ ~Did(acts', "start_iocost_bench")
             /\ ~Did(acts', "set_balloon") /\ ~Did(acts', "stop_oomd")
             /\ oomd_running' = oomd_running]_vars

\* C2 witness: the pass has just entered BenchHashd.
C2_Witness ==
    /\ pc = "check" /\ last_op = "apply_cmd" /\ it_start.state = "Idle"
    /\ state = "BenchHashd" /\ bench_hashd = "Running"
    /\ Did(acts, "start_hashd_bench") /\ ~oomd_running

\* C3: from Idle with no benchmark requested and (bench.hashd_seq > 0 or
\* force_running), an apply_cmd pass that does not fail sets state Running
\* and returns repeat = true, so that one more pass follows at once; that pass
\* runs in state Running and, when it does not fail, applies the hashd
\* parameters and sets the balloon to floor(total_memory * balloon_ratio).
C3_IdleToRunning ==
    [][/\ (/\ ApplyStep /\ state = "Idle"
           /\ ~IoCostRequested /\ ~HashdRequested
           /\ (bench.hashd_seq > 0 \/ cfg.force_running) /\ PassOk)
          => /\ state' = "Running" /\ last_ret' = "Ok_true"
             /\ pc' = "apply" /\ passes' = 1
       /\ (ApplyStep /\ passes >= 1)
          => /\ state = "Running" /\ last_ret = "Ok_true" /\ passes = 1
             /\ PassOk
                => /\ state' = "Running" /\ hashd_active'
                   /\ Before(acts', "apply_workloads", "set_balloon")
                   /\ \E i \in DOMAIN acts' :
                        acts'[i] = <<"set_balloon",
                                     (total_memory * cmd.balloon_ratio) \div 100>>
                   /\ last_ret' = "Ok_false" /\ pc' = "check"]_vars

\* C3 witness: the second pass of the iteration has run in state Running.
C3_Witness ==
    /\ pc = "check" /\ passes = 2 /\ it_start.state = "Idle"
    /\ state = "Running" /\ hashd_active /\ Did(acts, "set_balloon")

\* C4: in Running, an apply_cmd pass with a hashd or an iocost benchmark
\* requested calls become_idle (state Idle, reference-app set and side runner
\* stopped) and applies no workloads, sysloads, sideloads or balloon size and
\* starts no benchmark; a benchmark is started only by a pass from Idle.
C4_RunningToIdle ==
    [][/\ (/\ ApplyStep /\ state = "Running"
           /\ (HashdRequested \/ IoCostRequested) /\ PassOk)
          => /\ state' = "Idle" /\ ~hashd_active' /\ ~side_active'
             /\ NoHandles'
             /\ Did(acts', "become_idle")
             /\ \A n \in {"apply_workloads", "apply_sysloads",
                          "apply_sideloads", "set_balloon",
                          "start_hashd_bench", "start_iocost_bench"} :
                  ~Did(acts', n)
             /\ pc' = "check"
       /\ (\/ bench_hashd = "None" /\ bench_hashd' # "None"
           \/ bench_iocost = "None" /\ bench_iocost' # "None")
          => ApplyStep /\ state = "Idle"]_vars

\* C4 witness: a pass in Running with a benchmark requested has made the
\* runner Idle.
C4_Witness ==
    /\ pc = "check" /\ last_op = "apply_cmd" /\ it_start.state = "Running"
    /\ state = "Idle" /\ Did(acts, "become_idle")
    /\ (HashdRequested \/ IoCostRequested)

\* C5: in BenchHashd (BenchIoCost), an apply_cmd pass that does not fail
\* cancels the benchmark by become_idle when cmd.bench_hashd_seq <=
\* bench.hashd_seq (cmd.bench_iocost_seq <= bench.iocost_seq), and leaves the
\* state and both handles as they are when the request still exceeds the
\* completion.
C5_Cancel ==
    [][/\ (ApplyStep /\ state = "BenchHashd" /\ PassOk)
          => IF cmd.bench_hashd_seq <= bench.hashd_seq
             THEN state' = "Idle" /\ NoHandles' /\ Did(acts', "become_idle")
             ELSE /\ state' = state /\ bench_hashd' = bench_hashd
                  /\ bench_iocost' = bench_iocost
                  /\ ~Did(acts', "become_idle")
       /\ (ApplyStep /\ state = "BenchIoCost" /\ PassOk)
          => IF cmd.bench_iocost_seq <= bench.iocost_seq
             THEN state' = "Idle" /\ NoHandles' /\ Did(acts', "become_idle")
             ELSE /\ state' = state /\ bench_hashd' = bench_hashd
                  /\ bench_iocost' = bench_iocost
                  /\ ~Did(acts', "become_idle")]_vars

\* C5 witness: a pass has cancelled a benchmark whose unit was still running
\* an iteration before.
C5_Witness ==
    /\ pc = "check" /\ last_op = "apply_cmd"
    /\ it_start.state \in {"BenchHashd", "BenchIoCost"}
    /\ state = "Idle" /\ NoHandles /\ Did(acts, "become_idle")

\* The status refresh() finds for the unit of the active benchmark.
ActiveUnit ==
    CASE state = "BenchHashd" -> bench_hashd
      [] state = "BenchIoCost" -> bench_iocost
      [] OTHER -> "None"

\* C6: when check_completions finds the unit of the benchmark Exited and does
\* not fail, it sets the completion sequence of that benchmark to the
\* command's request sequence, then saves the bench knobs, then becomes Idle;
\* after it cmd.*_seq = bench.*_seq for that benchmark.  A benchmark is never
\* started while its request sequence does not exceed its completion
\* sequence, and outside maybe_reload no request arises, so the benchmark is
\* not started again before the request is raised.
C6_Completion ==
    [][/\ (CheckStep /\ ActiveUnit = "Exited" /\ last_ret' = "Ok")
          => /\ state' = "Idle" /\ cmd' = cmd
             /\ bench_disk' = bench'
             /\ Before(acts', "save_bench", "become_idle")
             /\ IF state = "BenchHashd"
                THEN /\ bench' = [bench EXCEPT !.hashd_seq = cmd.bench_hashd_seq]
                     /\ Before(acts', "update_hashd", "save_bench")
                     /\ ~HashdRequested'
                ELSE /\ bench' = [bench EXCEPT !.iocost_seq = cmd.bench_iocost_seq]
                     /\ Before(acts', "update_iocost", "save_bench")
                     /\ ~IoCostRequested'
       /\ (CheckStep /\ ActiveUnit = "Exited" /\ state' = "Idle")
          => last_ret' = "Ok"
       /\ (bench_hashd = "None" /\ bench_hashd' # "None") => HashdRequested
       /\ (bench_iocost = "None" /\ bench_iocost' # "None") => IoCostRequested
       /\ (pc # "reload" /\ ~HashdRequested) => ~HashdRequested'
       /\ (pc # "reload" /\ ~IoCostRequested) => ~IoCostRequested']_vars

\* C6 witness: a benchmark has completed and its result is saved.
C6_Witness ==
    /\ pc = "unlocked" /\ last_op = "check_completions" /\ last_ret = "Ok"
    /\ state = "Idle" /\ Did(acts, "save_bench") /\ bench_disk = bench
    /\ bench.hashd_seq = cmd.bench_hashd_seq /\ bench.hashd_seq > 0
    /\ Did(acts, "update_hashd")

\* C7: when check_completions finds the unit of the active benchmark neither
\* Running nor Exited, the runner becomes Idle by become_idle and
\* bench.hashd_seq and bench.iocost_seq stay as they are; with the unit
\* Running, and in Idle and in Running, check_completions changes nothing.
C7_CheckOther ==
    [][/\ (/\ CheckStep /\ state \in {"BenchHashd", "BenchIoCost"}
           /\ ActiveUnit \notin {"Running", "Exited"} /\ last_ret' = "Ok")
          => /\ state' = "Idle" /\ NoHandles' /\ Did(acts', "become_idle")
             /\ bench' = bench /\ bench_disk' = bench_disk
       /\ (CheckStep /\ (ActiveUnit = "Running" \/ state \in {"Idle", "Running"}))
          => /\ acts' = <<>>
             /\ UNCHANGED <<state, warned_bench, warned_init, force_apply,
                            bench_hashd, bench_iocost, hashd_active,
                            side_active, cmd, bench, bench_disk, cmd_ack,
                            cmd_ack_disk, oomd_running, sideloader_running,
                            slice_disabled>>]_vars

\* C7 witness: a benchmark whose unit failed has been given up, with the
\* benchmark still requested.
C7_Witness ==
    /\ pc = "unlocked" /\ last_op = "check_completions" /\ last_ret = "Ok"
    /\ it_start.state \in {"BenchHashd", "BenchIoCost"}
    /\ state = "Idle" /\ acts = <<<<"become_idle", 0>>>>
    /\ (HashdRequested \/ IoCostRequested)

\* C8: after a handler call that called become_idle, both benchmark handles
\* are released, the reference-app set and the side runner are stopped, and
\* the state is Idle.
C8_BecomeIdle ==
    Did(acts, "become_idle")
    => /\ state = "Idle" /\ NoHandles
       /\ ~hashd_active /\ ~side_active
       /\ acts[Len(acts)][1] = "become_idle"

\* C8 witness: become_idle has ended an iocost benchmark.
C8_Witness ==
    /\ Did(acts, "become_idle") /\ it_start.state = "BenchIoCost"
    /\ state = "Idle" /\ pc = "unlocked"

\* The state an apply_cmd pass that returns Ok leaves, from the guards of
\* its arms.
AfterPass(s, c, b) ==
    LET io == c.bench_iocost_seq > b.iocost_seq
        ha == c.bench_hashd_seq > b.hashd_seq
    IN CASE s = "Idle" ->
              IF io THEN "BenchIoCost"
              ELSE IF ha
                   THEN IF b.iocost_seq > 0 \/ cfg.force_running
                        THEN "BenchHashd" ELSE "Idle"
              ELSE IF b.hashd_seq > 0 \/ cfg.force_running
                   THEN "Running" ELSE "Idle"
         [] s = "Running" -> IF io \/ ha THEN "Idle" ELSE "Running"
         [] s = "BenchHashd" -> IF ha THEN "BenchHashd" ELSE "Idle"
         [] s = "BenchIoCost" -> IF io THEN "BenchIoCost" ELSE "Idle"

\* The state a check_completions call that returns Ok leaves, u being the
\* status of the unit of the active benchmark.
AfterCheck(s, u) ==
    IF s \in {"BenchHashd", "BenchIoCost"} /\ u # "Running" THEN "Idle" ELSE s

\* Some guard of a transition out of s holds.
GuardHolds(s, c, b, u) == AfterCheck(s, u) # s \/ AfterPass(s, c, b) # s

\* No handler call of the iteration fails: the apply_cmd passes made so far
\* returned Ok and the check_completions call of this step returns Ok.
IterOk ==
    /\ passes > 0 => last_ret \in {"Ok_true", "Ok_false"}
    /\ last_ret' = "Ok"

\* The state before check_completions, from the state at the start of the
\* iteration: apply_cmd runs only with cmd_pending or in Idle, a pass that
\* returns Err leaves the state, and a second pass runs in Running.
BeforeCheck ==
    IF ~(it_start.cmd_pending \/ it_start.state = "Idle") THEN it_start.state
    ELSE IF passes = 2 THEN "Running"
    ELSE IF last_ret = "Err" THEN it_start.state
    ELSE AfterPass(it_start.state, cmd, bench)

\* Every change of state is one of the six transitions, by the handler and
\* under the guard of that transition.
C9_Transitions ==
    state' # state =>
      \/ /\ state = "Idle" /\ state' = "BenchIoCost"
         /\ ApplyStep /\ IoCostRequested
      \/ /\ state = "Idle" /\ state' = "BenchHashd"
         /\ ApplyStep /\ ~IoCostRequested /\ HashdRequested
         /\ (bench.iocost_seq > 0 \/ cfg.force_running)
      \/ /\ state = "Idle" /\ state' = "Running"
         /\ ApplyStep /\ ~IoCostRequested /\ ~HashdRequested
         /\ (bench.hashd_seq > 0 \/ cfg.force_running)
      \/ /\ state = "Running" /\ state' = "Idle"
         /\ ApplyStep /\ (IoCostRequested \/ HashdRequested)
      \/ /\ state = "BenchHashd" /\ state' = "Idle"
         /\ \/ ApplyStep /\ ~HashdRequested
            \/ CheckStep /\ bench_hashd # "Running"
      \/ /\ state = "BenchIoCost" /\ state' = "Idle"
         /\ \/ ApplyStep /\ ~IoCostRequested
            \/ CheckStep /\ bench_iocost # "Running"

\* An iteration in which no guard holds ends in the state it started in.
C9_NoGuard ==
    (CheckStep /\ ~GuardHolds(it_start.state, cmd, bench, ActiveUnit))
    => state' = it_start.state

C10_AckMonotonic ==
    /\ [](cmd_ack <= cmd.cmd_seq /\ cmd_ack_disk <= cmd_ack)
    /\ [][cmd_ack' >= cmd_ack /\ cmd_ack_disk' >= cmd_ack_disk]_vars

\* C10 witness: a second command has been acknowledged in memory while the
\* commit of the ack file failed, so that the file still holds the first.
C10_Witness ==
    /\ cmd_ack > 0 /\ cmd_ack = cmd.cmd_seq /\ last_op = "apply_cmd"
    /\ acts[1] = <<"ack", cmd_ack>> /\ cmd_ack_disk < cmd_ack

\* A step of MaybeReload.
ReloadStep == pc = "reload"

\* C11: the acknowledgement of a command is written before any action taken
\* in response to it is started, and the action of an acknowledged command is
\* then carried out: (1) every apply_cmd pass writes the ack of the loaded
\* command as its first call; (2) the sideloader is given the headroom of a
\* command only once that command is acknowledged; (3) when an iteration that
\* ran apply_cmd ends with the loaded command acknowledged, its last pass
\* carried out the action of its arm, or the state is Idle, where the next
\* iteration runs apply_cmd again.
C11_AckBeforeAct ==
    [][/\ (ApplyStep /\ last_ret' # "panic")
          => /\ acts'[1] = <<"ack", cmd.cmd_seq>>
             /\ cmd_ack' = cmd.cmd_seq
       /\ (ReloadStep /\ cmd'.cpu_headroom # cmd.cpu_headroom
           /\ Did(acts', "apply_sideloader"))
          => cmd_ack_disk' = cmd'.cmd_seq
       /\ (CheckStep /\ passes > 0 /\ cmd_ack_disk = cmd.cmd_seq)
          => (last_ret \in {"Ok_true", "Ok_false"} \/ state = "Idle")]_vars

\* The reconciler does not hold the runner mutex: between drop(data) and
\* the lock taken again, and once run() has returned.
MutexFree == pc \in {"unlocked", "done"}

\* C12: whenever the reconciler does not hold the runner mutex, state =
\* BenchHashd iff the bench_hashd handle is present, state = BenchIoCost iff
\* the bench_iocost handle is present (so in Idle and in Running both handles
\* are absent), and at most one handle is present.
C12_Consistent ==
    MutexFree
    => /\ (state = "BenchHashd") <=> (bench_hashd # "None")
       /\ (state = "BenchIoCost") <=> (bench_iocost # "None")
       /\ state \in {"Idle", "Running"} => NoHandles
       /\ ~(bench_hashd # "None" /\ bench_iocost # "None")

\* C12 witness: the mutex is free with a hashd benchmark running, after an
\* iteration that started it.
C12_Witness ==
    /\ pc = "unlocked" /\ it_start.state = "Idle" /\ passes = 1
    /\ state = "BenchHashd" /\ bench_hashd = "Running"
    /\ bench_iocost = "None"


\* ------------------------------------------------------------ reporter
\* The step is the tick of the ReportFile f.
TickStep(f) == rpc = (IF f = "report_file" THEN "tick" ELSE "tick_1min")

\* The operations of a tick hold one of the kind k.
HasOp(o, k) == \E i \in DOMAIN o : o[i][1] = k

\* The tick of f came to a summary / wrote the file of its summary.
Emitted(f) == TickStep(f) /\ summary'[f] # None

Written(f) == TickStep(f) /\ HasOp(ops'[f], "commit")

\* C13: reports are emitted one after the other and in the order of their
\* stamps: when the 60-second ReportFile ticks, the tick of the 1-second one
\* for the same base report is over (its next_at is past `now`, its file is
\* in the directory, its symlink is swung and no staging symlink is left);
\* when a base report is built, both ticks for the previous one are over;
\* and the stamp of every report a ReportFile writes is greater than every
\* name in its directory and not below the next_at it had.
C13_Sequential ==
    [][/\ TickStep("report_file_1min")
          => /\ rf["report_file"].next_at > r_now
             /\ fs["report_file"].staging = None
             /\ HasOp(ops["report_file"], "commit")
                => report_name(r_now, 1) \in fs["report_file"].files
             /\ HasOp(ops["report_file"], "symlink")
                => fs["report_file"].link = Some(report_name(r_now, 1))
       /\ (base_report' # base_report /\ base_report' # None)
          => /\ rpc = "base"
             /\ base_report # None
                => \A f \in RF : /\ rf[f].next_at > r_now
                                 /\ fs[f].staging = None
       /\ \A f \in RF :
            /\ Written(f) => \A n \in fs[f].files : n < summary'[f][1].name
            /\ Emitted(f) => summary'[f][1].name >= rf[f].next_at]_vars

C13_Witness ==
    /\ rpc = "select"
    /\ nticks >= 2
    /\ summary["report_file_1min"] # None
    /\ HasOp(ops["report_file_1min"], "commit")
    /\ Cardinality(fs["report_file"].files) >= 2

\* C14: for every report a ReportFile emits, its next_at before the tick is
\* at most the timestamp of the report in unix seconds, which is below its
\* next_at after the tick.
C14_TimestampInBucket ==
    [][\A f \in RF :
         Emitted(f)
         => /\ rf[f].next_at <= summary'[f][1].timestamp
            /\ summary'[f][1].timestamp < rf'[f].next_at]_vars

\* A 1-second report whose timestamp is its own stamp.
C14_Witness ==
    /\ rpc = "tick_1min"
    /\ summary["report_file"] # None
    /\ summary["report_file"][1].timestamp = summary["report_file"][1].name

\* The names of the reports the operations o write.
Committed(o) == {o[i][2] : i \in {j \in DOMAIN o : o[j][1] = "commit"}}

\* C15: the next_at of a ReportFile of interval intv is always a multiple of
\* intv, and after a tick that emits it is greater than the time `now` of
\* that tick; every report file written is named b with b a multiple of
\* intv and b <= now < b + intv, so every name in the 60-second directory
\* is a multiple of 60.
C15_NextAtAndNames ==
    [][\A f \in RF :
         /\ rf[f] # None => rf[f].next_at % Intv(f) = 0
         /\ rf'[f] # None => rf'[f].next_at % Intv(f) = 0
         /\ Emitted(f) => rf'[f].next_at > r_now
         /\ TickStep(f)
            => \A b \in Committed(ops'[f]) :
                 /\ b % Intv(f) = 0
                 /\ b <= r_now /\ r_now < b + Intv(f)
         /\ \A n \in fs'["report_file_1min"].files : n % 60 = 0]_vars

\* The 60-second ReportFile wrote a report in the middle of a minute.
C15_Witness ==
    /\ rpc = "select"
    /\ HasOp(ops["report_file_1min"], "commit")
    /\ r_now % 60 # 0
    /\ rf["report_file_1min"].next_at > r_now

\* C17: with a retention r, after any tick of a ReportFile that reaches its
\* boundary at time `now` (failed usage updates included), its directory
\* holds no report named below now - r, and no report named now - r or
\* above was deleted by the tick.
C17_Retention ==
    [][\A f \in RF :
         (Emitted(f) /\ rf[f].retention # None)
         => /\ \A n \in fs'[f].files : ~(n < r_now - rf[f].retention[1])
            /\ \A n \in fs[f].files :
                 n >= r_now - rf[f].retention[1] => n \in fs'[f].files]_vars

\* A tick with a retention removed an expired report.
C17_Witness ==
    \E f \in RF :
      /\ rf[f] # None /\ rf[f].retention # None
      /\ HasOp(ops[f], "remove")
      /\ \E i \in DOMAIN ops[f] :
           /\ ops[f][i][1] = "remove"
           /\ \A n \in ops[f][i][2] : n \notin fs[f].files
           /\ \E n \in ops[f][i][2] : n \in Committed(ops[f]) \cup {r_now - 2}

\* C18: during a tick that writes a report, the stable symlink changes only
\* by the rename of the staging symlink, to a report the tick has committed;
\* after each operation of the tick the symlink, if there is one, resolves
\* to a report in the directory; and after the tick it resolves to the
\* report of the tick.
C18_Symlink ==
    [][\A f \in RF :
         (TickStep(f) /\ ops'[f] # <<>>)
         => \A k \in 1..Len(ops'[f]) :
              LET x == ApplyOps(fs[f], ops'[f], k)
                  w == ApplyOps(fs[f], ops'[f], k - 1)
              IN /\ x.link # None => x.link[1] \in x.files
                 /\ x.link # w.link
                    => /\ ops'[f][k][1] = "rename"
                       /\ x.link[1] \in Committed(SubSeq(ops'[f], 1, k))
                 /\ k = Len(ops'[f])
                    => x.link = Some(summary'[f][1].name)]_vars

\* A tick swung the symlink from one report to the next.
C18_Witness ==
    /\ rpc = "tick_1min"
    /\ HasOp(ops["report_file"], "commit")
    /\ HasOp(ops["report_file"], "symlink")
    /\ fs["report_file"].link = Some(r_now)
    /\ Cardinality(fs["report_file"].files) >= 2

\* hashd[0].rps of the base report of the step.
SampleOf == base_report[1].hashd_rps

\* C16: when a tick of a ReportFile comes to a summary, nr_samples is the
\* number of ticks since the summary before (or since creation), this tick
\* included, each averaged metric of the summary is the sum of the samples
\* of those ticks divided by nr_samples, and the accumulators and
\* nr_samples are zero after the tick; 60 samples with hashd[0].rps = 100,
\* 101, ..., 159 give 129.5.
C16_Average ==
    [][\A f \in RF :
         Emitted(f)
         => /\ summary'[f][1].nr_samples = fed[f].n + 1
            /\ summary'[f][1].hashd_rps
                 = (fed[f].sum + SampleOf) \div (fed[f].n + 1)
            /\ summary'[f][1].iocost_vrate = Tenths(100)
            /\ rf'[f].nr_samples = 0
            /\ rf'[f].hashd_acc = 0 /\ rf'[f].iocost_acc = 0
            /\ (fed[f].n + 1 = 60 /\ fed[f].sum + SampleOf = Tenths(7770))
               => summary'[f][1].hashd_rps = 1295]_vars

\* The 60-second ReportFile emitted the mean of the 60 samples 100..159.
C16_Witness ==
    /\ summary["report_file_1min"] # None
    /\ summary["report_file_1min"][1].nr_samples = 60
    /\ summary["report_file_1min"][1].hashd_rps = 1295
    /\ base_report # None /\ base_report[1].hashd_rps = Tenths(159)
    /\ rf["report_file_1min"].nr_samples = 0

\* The step is a round of select! that woke on the event e.
SelectStep(e) ==
    /\ rpc = "select"
    /\ woke' = e
    /\ ~(prog_exiting' /\ ~prog_exiting /\ rpc' = "select")

\* The budget of a reader.
RetriesOf(r) == IF r = "iolat" THEN iolat_retries ELSE iolat_cum_retries

ErrOf(r) == IF r = "iolat" THEN "iolat_err" ELSE "iolat_cum_err"

Started == rpc \notin {"none", "new", "run_inner"}

\* C19: each latency reader is reset at most BCC_RETRIES times; a reader's
\* budget is BCC_RETRIES less its own resets, so the budgets are independent
\* and never grow; and a failure of a reader's channel when its budget is
\* spent, or when the program-exiting flag is set, panics the worker, which
\* sets the program-exiting flag.
C19_RetryBudget ==
    [][\A r \in Readers :
         /\ nresets[r] <= BCC_RETRIES
         /\ Started => RetriesOf(r) + nresets[r] = BCC_RETRIES
         /\ (Started /\ Started') => RetriesOf(r)' + nresets'[r] = BCC_RETRIES
         /\ Started => nresets'[r] >= nresets[r]
         /\ (SelectStep(ErrOf(r)) /\ (RetriesOf(r) = 0 \/ prog_exiting))
            => /\ rpc' = "panicked"
               /\ prog_exiting'
               /\ nresets' = nresets
         /\ (SelectStep(ErrOf(r)) /\ RetriesOf(r) > 0 /\ ~prog_exiting)
            => /\ nresets' = [nresets EXCEPT ![r] = @ + 1]
               /\ rpc' = "panicked" => prog_exiting'
         /\ rpc' = "panicked" => prog_exiting']_vars

\* The worker panicked on a failure of iolat after BCC_RETRIES resets of it,
\* with iolat_cum reset once.
C19_Witness ==
    /\ rpc = "panicked"
    /\ woke = "iolat_err"
    /\ nresets["iolat"] = BCC_RETRIES
    /\ nresets["iolat_cum"] = 1
    /\ iolat_retries = 0
    /\ iolat_cum_retries = BCC_RETRIES - 1
    /\ prog_exiting

ReporterPanicked == rpc = "panicked"

\* C20: when the reporter thread panics, the program-exiting flag is set;
\* from then on the reconciler does not panic when it takes the runner mutex
\* again, and it comes to the end of its loop (it terminates without
\* blocking).
C20_CooperativeExit ==
    /\ [][(ReporterPanicked' /\ ~ReporterPanicked) => prog_exiting']_vars
    /\ [][(ReporterPanicked /\ pc = "unlocked") => pc' # "panic"]_vars
    /\ (ReporterPanicked /\ pc # "panic") ~> (pc \in {"done", "panic"})

\* The reporter panicked with the runner mutex free, and the reconciler left
\* its loop on the flag.
C20_Witness ==
    /\ ReporterPanicked
    /\ mutex = "ok"
    /\ prog_exiting
    /\ pc = "done"

\* C21: after the sender of the termination channel is dropped, the
\* reporter worker makes at most one more tick before it leaves its loop.
C21_OneMoreTick == term # None => term[1] <= 1

\* The worker finished the tick it was in when the sender was dropped, and
\* left its loop.
C21_Witness ==
    /\ term = Some(1)
    /\ rpc = "exited"
    /\ woke = "term"
    /\ pc = "done"

\* ---------------------------------------------------------------- C22
\* The inputs of parse as it reads them, and the overrides it generated.
VrateMinIn == IF jspec.vrate_min = None THEN 0 ELSE jspec.vrate_min[1]
VrateMaxIn == IF jspec.vrate_max = None THEN DFL_VRATE_MAX ELSE jspec.vrate_max[1]
IntvsIn ==
    IF Len(jspec.ovrs) = 0 /\ jspec.vrate_intvs = 0
    THEN DFL_VRATE_INTVS
    ELSE jspec.vrate_intvs
Generated == SubSeq(job.runs, 2 + Len(jspec.ovrs), Len(job.runs))

\* n points from top downward, step apart, each an override min = max.
PointsFrom(top, step, n) ==
    [k \in 1..n |->
       IoCostQoSOvr(FALSE, Some(top - (k - 1) * step),
                    Some(top - (k - 1) * step), FALSE)]

\* The N points of the claim: V, V-V/N, .., V/N for vrate_min = 0, and
\* b, b-D, .., a with D = (b-a)/(N-1) for vrate_min = a > 0.
IdealPoints ==
    IF VrateMinIn = 0
    THEN PointsFrom(VrateMaxIn, VrateMaxIn \div IntvsIn, IntvsIn)
    ELSE IF IntvsIn = 1
    THEN PointsFrom(VrateMaxIn, 0, 1)
    ELSE PointsFrom(VrateMaxIn, (VrateMaxIn - VrateMinIn) \div (IntvsIn - 1),
                    IntvsIn)

PlannedNoDither == qpc = "run" /\ ~jspec.dither /\ IntvsIn > 0

DitherFromPrev ==
    /\ qpc = "run"
    /\ jspec.dither
    /\ jspec.dither_dist = None
    /\ IntvsIn > 0
    /\ prev_data # None
    /\ prev_data[1].dither_dist # None
    /\ prev_data[1].base_model = bench_knobs.model
    /\ prev_data[1].base_qos = bench_knobs.qos

\* The N points of the range with both of its ends moved by dd.
ShiftedPoints(dd) ==
    [k \in 1..Len(IdealPoints) |->
       IoCostQoSOvr(FALSE, Some(IdealPoints[k].min[1] + dd),
                    Some(IdealPoints[k].min[1] + dd), FALSE)]

\* C23: when dithering is requested without a distance and the previous
\* record carries a dither_dist (and its base model and base QoS match),
\* planning takes exactly that distance, whatever gen_range would draw, and
\* generates the points of the range with both its ends offset by it.
C23_PrevDither ==
    DitherFromPrev =>
        LET dd == prev_data[1].dither_dist
        IN /\ job.dither_dist = dd
           /\ \A r \in 1..3 : parse(jspec, prev_data, r) = q_ret
           /\ Generated = SelectSeq(ShiftedPoints(dd[1]),
                                    LAMBDA o : o.min[1] > VUnit - VUnit \div 1000)

\* vrate_min = 2, vrate_max = 10, two intervals, dithered by the -0.5 of the
\* previous record: the points 9.5 and 1.5.
C23_Witness ==
    /\ DitherFromPrev
    /\ prev_data[1].dither_dist = Some(-(VUnit \div 2))
    /\ job.dither_dist = Some(-(VUnit \div 2))
    /\ VrateMinIn = 2 * VUnit
    /\ VrateMaxIn = 10 * VUnit
    /\ IntvsIn = 2
    /\ Generated[1].max = Some(10 * VUnit - VUnit \div 2)
    /\ Generated[2].min = Some(2 * VUnit - VUnit \div 2)

\* ---------------------------------------------------------------- C24
\* run has returned the consolidated record.
SweepOk == qpc = "done" /\ q_ret # None /\ q_ret.ok /\ prev_rec # None

\* The first run of the record rec with the override ovr, its runs before
\* its inc_runs; None if it has none.
FirstRunOf(ovr, rec) ==
    LET in_runs == {k \in 1..Len(rec.runs) :
                      rec.runs[k] # None /\ rec.runs[k][1].ovr = ovr}
        in_inc == {k \in 1..Len(rec.inc_runs) : rec.inc_runs[k].ovr = ovr}
    IN IF in_runs # {}
       THEN rec.runs[CHOOSE k \in in_runs : \A j \in in_runs : k <= j]
       ELSE IF in_inc # {}
       THEN Some(rec.inc_runs[CHOOSE k \in in_inc : \A j \in in_inc : k <= j])
       ELSE None

\* run_one was called with the override ovr.
Benched(ovr) == \E k \in 1..Len(benched) : benched[k] = ovr

\* C24: for every planned override that equals the override of a run of the
\* previous record (its runs or its inc_runs), no benchmark is run and the
\* first such run, runs before inc_runs, is in the slot of that override in
\* the returned record.
C24_ReusePrior ==
    (SweepOk /\ prev_data # None) =>
        \A i \in 1..Len(job.runs) :
            LET m == FirstRunOf(job.runs[i], prev_data[1])
            IN m # None =>
                 /\ ~Benched(job.runs[i])
                 /\ q_ret.v.runs[i] = m

\* A sweep over [off, 50-90, 4] with a previous record that has 4 in its
\* runs and 4 and 50-90 in its inc_runs: slot 2 holds the run of inc_runs,
\* slot 3 the one of runs, and only the baseline was run.
C24_Witness ==
    /\ SweepOk
    /\ prev_data # None
    /\ Len(job.runs) = 3
    /\ job.runs[2] = OvrExplicit
    /\ job.runs[3] = OvrPoint(4)
    /\ Len(prev_data[1].runs) = 2
    /\ Len(prev_data[1].inc_runs) = 2
    /\ q_ret.v.runs[2] = Some(prev_data[1].inc_runs[2])
    /\ q_ret.v.runs[3] = prev_data[1].runs[2]
    /\ benched = <<OvrOff>>

\* ---------------------------------------------------------------- C25
\* The previous record matches the current configuration: base model, base
\* QoS and the memory profile of its first run.
PrevMatches ==
    LET prec == prev_data[1]
        rs == rec_runs(prec)
    IN /\ prec.base_model = bench_knobs.model
       /\ prec.base_qos = bench_knobs.qos
       /\ Len(rs) > 0
       /\ rs[1].stor_mem_profile = mem_profile

\* The record rec holds a run of the previous record: those carry periods
\* below 0.
HoldsPrevRun(rec) ==
    \/ \E k \in 1..Len(rec.runs) :
          rec.runs[k] # None /\ rec.runs[k][1].period < 0
    \/ \E k \in 1..Len(rec.inc_runs) : rec.inc_runs[k].period < 0

\* C25: when the previous record does not match the current configuration,
\* no run of it is in the returned record nor in any incremental record
\* given to update_incremental_record.
C25_NoReuseOnMismatch ==
    (prev_data # None /\ ~PrevMatches) =>
        /\ \A k \in 1..Len(inc_records) : ~HoldsPrevRun(inc_records[k])
        /\ SweepOk => ~HoldsPrevRun(q_ret.v)

\* A previous record of another base model with a part of the planned
\* overrides: run gives up before its loop.
C25_Witness ==
    /\ prev_data # None
    /\ ~PrevMatches
    /\ Len(rec_runs(prev_data[1])) > 0
    /\ qpc = "done"
    /\ ~q_ret.ok
    /\ benched = <<>>
    /\ inc_records = <<>>

\* ---------------------------------------------------------------- C26
\* A step of the loop in which run_one was called and returned Err, with
\* the program not exiting.
RunOneFailed ==
    /\ qpc = "loop"
    /\ benched' # benched
    /\ nr_failed' = nr_failed + 1
    /\ ~bench_exiting

\* C26: when the run of a planned point fails, the sweep returns that error
\* without allow-fail; with allow-fail the point gets exactly one None slot
\* and the sweep goes on to the next planned point.
C26_FailedPoint ==
    [][RunOneFailed =>
         IF job.allow_fail
         THEN /\ qpc' = "loop"
              /\ runs_l' = Append(runs_l, None)
              /\ run_i' = run_i + 1
         ELSE /\ qpc' = "done"
              /\ ~q_ret'.ok
              /\ q_ret'.v = "Storage benchmark failed too many times"]_vars

\* Without allow-fail the first failed point ends the sweep with its error.
C26_Witness ==
    /\ qpc = "done"
    /\ job # None
    /\ ~job.allow_fail
    /\ nr_failed = 1
    /\ q_ret = Err("Storage benchmark failed too many times")
    /\ Len(benched) = 2

\* ---------------------------------------------------------------- C27
\* C27: the record the sweep returns has one entry of runs per planned
\* override, in plan order: runs[i] is None or a run whose ovr is the
\* planned override i.
C27_RunsMatchPlan ==
    SweepOk =>
        /\ Len(q_ret.v.runs) = Len(job.runs)
        /\ \A i \in 1..Len(job.runs) :
              \/ q_ret.v.runs[i] = None
              \/ q_ret.v.runs[i][1].ovr = job.runs[i]

\* A sweep over four planned overrides that ran three of them and skipped
\* one for its low max rate, with no failed point.
C27_Witness ==
    /\ SweepOk
    /\ nr_failed = 0
    /\ Len(job.runs) = 4
    /\ Len(benched) = 3
    /\ \E i \in 1..4 : job.runs[i].skip /\ q_ret.v.runs[i] = None
    /\ \A i \in 1..4 :
          ~job.runs[i].skip =>
              /\ q_ret.v.runs[i] # None
              /\ q_ret.v.runs[i][1].ovr = job.runs[i]

\* ---------------------------------------------------------------- C28
\* The runs of this sweep that were kept: in the local runs, in prev_rec's
\* inc_runs, in the incremental records and in the returned record.  The
\* runs of the previous record carry periods below 0.
KeptRuns ==
    LET of(rec) == {rec.runs[k][1] : k \in {j \in 1..Len(rec.runs) :
                                              rec.runs[j] # None}}
                   \cup {rec.inc_runs[k] : k \in 1..Len(rec.inc_runs)}
        all == {runs_l[k][1] : k \in {j \in 1..Len(runs_l) : runs_l[j] # None}}
               \cup (IF prev_rec = None THEN {} ELSE of(prev_rec))
               \cup UNION {of(inc_records[k]) : k \in 1..Len(inc_records)}
               \cup (IF SweepOk THEN of(q_ret.v) ELSE {})
    IN {r \in all : r.period > 0}

\* The QoS of the base with the override over it.
Composed(ovr) ==
    [min |-> IF ovr.min = None THEN bench_knobs.qos.min ELSE ovr.min[1],
     max |-> IF ovr.max = None THEN bench_knobs.qos.max ELSE ovr.max[1],
     rpct |-> bench_knobs.qos.rpct]

\* A step in which run_one returned a run whose QoS is not the target.
ReadBackDiffers ==
    /\ qpc = "loop"
    /\ benched' # benched
    /\ run_one_ret'.ok
    /\ ~run_one_ret'.v.ovr.off
    /\ run_one_ret'.v.qos # Some(Composed(run_one_ret'.v.ovr))

\* C28: every run of a planned point that the sweep keeps has qos = None
\* iff its override is off, and otherwise the QoS composed from the base QoS
\* and the override; a run whose read-back QoS is not that target makes the
\* sweep fail, with allow-fail too, and is put neither in inc_runs nor in the
\* result.
C28_QoSValidated ==
    /\ [](\A r \in KeptRuns :
            /\ (r.qos = None) <=> r.ovr.off
            /\ ~r.ovr.off => r.qos = Some(Composed(r.ovr)))
    /\ [][ReadBackDiffers =>
            /\ qpc' = "done"
            /\ q_ret' = Err("result qos != target qos")
            /\ runs_l' = runs_l
            /\ prev_rec' = prev_rec
            /\ inc_records' = inc_records]_vars

\* Under allow-fail the run of the point 4 reads back the base QoS, after the
\* baseline was run and kept: the sweep fails.
C28_Witness ==
    /\ qpc = "done"
    /\ job # None
    /\ job.allow_fail
    /\ q_ret = Err("result qos != target qos")
    /\ run_one_ret.ok
    /\ run_one_ret.v.ovr = OvrPoint(4)
    /\ run_one_ret.v.qos = Some(bench_knobs.qos)
    /\ Len(runs_l) = 1
    /\ runs_l[1][1].ovr = OvrOff
    /\ runs_l[1][1].qos = None
    /\ Len(prev_rec.inc_runs) = 1

\* ---------------------------------------------------------------- C29
\* The inc_runs the sweep started with, and the runs it has added to them.
InheritedIncRuns == IF prev_data = None THEN <<>> ELSE prev_data[1].inc_runs
AddedIncRuns ==
    SubSeq(prev_rec.inc_runs, Len(InheritedIncRuns) + 1, Len(prev_rec.inc_runs))

\* A step in which run_one returned a run that passed the check of its QoS.
RunKept ==
    /\ qpc = "loop"
    /\ benched' # benched
    /\ run_one_ret'.ok
    /\ qpc' = "loop"

\* C29: each executed and validated point is appended to inc_runs and an
\* incremental record with all points completed so far, in the order they
\* ran and after the inc_runs of the previous record, is handed to
\* update_incremental_record before the next point starts; the record
\* returned in the end has no inc_runs.
C29_Incremental ==
    /\ [][RunKept =>
            /\ prev_rec'.inc_runs = Append(prev_rec.inc_runs, run_one_ret'.v)
            /\ inc_records' = Append(inc_records, prev_rec')
            /\ run_i' = run_i + 1]_vars
    /\ [](prev_rec # None =>
            /\ Len(inc_records) = Len(AddedIncRuns)
            /\ \A k \in 1..Len(inc_records) :
                  inc_records[k].inc_runs =
                      InheritedIncRuns \o SubSeq(AddedIncRuns, 1, k)
            /\ \A k \in 1..Len(AddedIncRuns) :
                  /\ AddedIncRuns[k].period > 0
                  /\ k > 1 => AddedIncRuns[k - 1].period < AddedIncRuns[k].period)
    /\ [](SweepOk => q_ret.v.inc_runs = <<>>)

\* A sweep that inherited two inc_runs and ran two points: the second
\* incremental record holds the four, and the record returned none.
C29_Witness ==
    /\ SweepOk
    /\ Len(InheritedIncRuns) = 2
    /\ Len(inc_records) = 2
    /\ Len(inc_records[2].inc_runs) = 4
    /\ inc_records[2].inc_runs[3].period > 0
    /\ inc_records[2].inc_runs[3].period < inc_records[2].inc_runs[4].period
    /\ q_ret.v.inc_runs = <<>>

\* ---------------------------------------------------------------- C30
InBench == state \in {"BenchHashd", "BenchIoCost"}

\* C30: while the state is BenchHashd or BenchIoCost, maybe_reload reloads
\* none of the bench, slice, side-definition and OOMD files, whatever has
\* changed in them, and applies none of the iocost, slice and OOMD
\* configurations; the command file is still reloaded.
C30_NoReloadInBench ==
    [][(ReloadStep /\ InBench) =>
         /\ \A in \in ReloadInAll(Data) :
              LET r == maybe_reload(Data, in)
              IN /\ ~r.files.bench /\ ~r.files.slice
                 /\ ~r.files.side /\ ~r.files.oomd
                 /\ r.d.bench = bench
                 /\ r.d.bench_disk = bench_disk
                 /\ r.d.slice_disabled = slice_disabled
                 /\ r.d.force_apply = force_apply
                 /\ ~Did(r.d.acts, "apply_iocost")
                 /\ ~Did(r.d.acts, "apply_slices")
                 /\ ~Did(r.d.acts, "apply_oomd")
                 /\ r.files.cmd <=> in.cmd # NoChange
                 /\ in.cmd # NoChange => r.d.cmd = in.cmd[1]
         /\ bench' = bench
         /\ slice_disabled' = slice_disabled
         /\ force_apply' = force_apply
         /\ oomd_running' = oomd_running
         /\ ~Did(acts', "apply_iocost")
         /\ ~Did(acts', "apply_slices")
         /\ ~Did(acts', "apply_oomd")]_vars

\* maybe_reload has loaded a new command during the iocost benchmark, with
\* the forced reload that the start of the benchmark asked for still
\* pending.
C30_Witness ==
    /\ last_op = "maybe_reload"
    /\ last_ret = "true"
    /\ state = "BenchIoCost"
    /\ force_apply
    /\ cmd.cmd_seq > 0
    /\ acts = <<>>

\* ---------------------------------------------------------------- C31
\* A benchmark is started by this step.
StartStep == ApplyStep /\ state = "Idle" /\ InBench'

\* maybe_reload applied the iocost, slice and OOMD configurations again and
\* reported a change, which set both pending flags.
ForcedReload ==
    /\ Did(acts', "apply_iocost")
    /\ Did(acts', "apply_slices")
    /\ cfg.enforce_oomd => (Did(acts', "apply_oomd") /\ oomd_running')
    /\ last_ret' = "true"
    /\ cmd_pending' /\ verify_pending'

\* The claim as it was made: the maybe_reload that follows the start of a
\* benchmark, which is the one that finds force_apply set, makes the forced
\* reload and clears force_apply.
C31_Original ==
    [][(ReloadStep /\ force_apply /\ last_ret' # "panic")
         => (ForcedReload /\ ~force_apply')]_vars

\* C31: the start of a benchmark sets force_apply; maybe_reload leaves it
\* set and applies nothing for as long as the state is BenchIoCost or
\* BenchHashd; the first maybe_reload made out of these states clears it,
\* applies the iocost, slice and (with OOMD enforcement) OOMD configurations
\* whether or not a file changed, and sets cmd_pending and verify_pending.
\* Nothing else sets or clears force_apply, and no benchmark is started while
\* it is set, so that each start is consumed exactly once.
C31_ForceApply ==
    /\ []((pc \in {"top", "apply"} /\ state = "Idle") => ~force_apply)
    /\ [][/\ StartStep => (~force_apply /\ force_apply')
          /\ (force_apply' /\ ~force_apply) => StartStep
          /\ (force_apply /\ ~force_apply') => (ReloadStep /\ ~InBench)
          /\ (ReloadStep /\ force_apply /\ InBench)
             => (force_apply' /\ acts' = <<>>)
          /\ (ReloadStep /\ force_apply /\ ~InBench)
             => /\ ~force_apply'
                /\ last_ret' # "panic" => ForcedReload]_vars

\* The first maybe_reload after a cancelled iocost benchmark has made the
\* forced reload with no file changed since the start.
C31_Witness ==
    /\ last_op = "maybe_reload"
    /\ last_ret = "true"
    /\ pc = "top"
    /\ state = "Idle"
    /\ ~force_apply
    /\ cmd_pending /\ verify_pending
    /\ Did(acts, "apply_iocost") /\ Did(acts, "apply_slices")
    /\ Did(acts, "apply_oomd")
    /\ bench = bench_disk
    /\ it_start.state = "BenchIoCost"

\* ---------------------------------------------------------------- C32
\* The step is the call of maybe_reload on the files `in`.
ReloadOf(in) ==
    LET r == maybe_reload(Data, in)
    IN /\ ReloadStep
       /\ r.ret # "panic"
       /\ Data' = r.d
       /\ last_ret' = r.ret

\* maybe_reload on the files `in` reloads one of the five files.
ReloadsAFile(in) ==
    LET f == maybe_reload(Data, in).files
    IN f.cmd \/ f.bench \/ f.slice \/ f.side \/ f.oomd

\* C32: a call of maybe_reload that reloads a changed command, bench, slice,
\* side-definition or OOMD file sets cmd_pending and verify_pending, and the
\* next iteration then calls apply_cmd, in state Running too.
C32_ReloadReports ==
    [][/\ \A in \in ReloadInFiles(Data) :
            (ReloadOf(in) /\ ReloadsAFile(in))
            => (last_ret' = "true" /\ cmd_pending' /\ verify_pending')
       /\ (pc = "top" /\ pc' # "top" /\ ~prog_exiting /\ cmd_pending)
          => pc' = "apply"]_vars

\* maybe_reload has reloaded the command file in state Running and set both
\* flags.
C32_Witness ==
    /\ last_op = "maybe_reload"
    /\ last_ret = "true"
    /\ pc = "top"
    /\ state = "Running"
    /\ it_start.state = "Running"
    /\ cmd.cmd_seq > cmd_ack
    /\ cmd_pending /\ verify_pending

\* ---------------------------------------------------------------- C33
\* kick() is called in this step.
KickStep == kicked' # kicked

ReconcilerUnlocked ==
    lpc \in {"drop_loads", "new", "new_held", "file", "usage", "usage_held",
             "sleep", "drop_reporter", "join"}

\* The guard `data` of Runner::run is not alive in the unlocked section and
\* in Reporter::drop, and a thread that asks the reporter's code for the
\* mutex holds no guard of it.
LockDiscipline ==
    /\ ReconcilerUnlocked => owner # "data"
    /\ lpc \in {"new", "usage"} => ~HeldBy("reconciler")
    /\ wpc \in {"run_inner", "base", "usage"} => ~HeldBy("worker")

\* The guard the worker thread asks for at the position p.
GuardAt(p) ==
    IF p = "run_inner" THEN "runner_inner"
    ELSE IF p = "base" THEN "runner_rep"
    ELSE "usages"

\* Neither thread waits for ever: the reconciler leaves each position where
\* it asks for the mutex or joins the worker, and once it returns or unwinds
\* both threads end.
NoDeadlock ==
    /\ \A p \in {"new", "usage", "lock", "join"} : (lpc = p) ~> (lpc # p)
    /\ (lpc \in {"return", "drop_reporter"})
         ~> (lpc = "done" /\ wpc \in {"none", "exited", "panicked"})

\* The claim as it was made: every lock() of the worker thread gets the
\* mutex.
C34_Original ==
    /\ []LockDiscipline
    /\ \A p \in {"run_inner", "base", "usage"} :
         (wpc = p) ~> (owner = GuardAt(p) /\ HeldBy("worker"))
    /\ NoDeadlock

\* C34: the reconciler does not hold the runner mutex while it drops the
\* removed loads, makes the reporter, sleeps, or joins the worker on its way
\* out, and the reporter's code never asks for the mutex in a thread that
\* holds it.  So every lock() of the worker thread returns: with the mutex,
\* or, once the reconciler has panicked with its guard alive, with the poison
\* error, whose unwrap ends the worker.  Neither thread waits for ever, also
\* not when the reconciler returns or unwinds and joins the worker.
C34_LockOrder ==
    /\ []LockDiscipline
    /\ \A p \in {"run_inner", "base", "usage"} :
         (wpc = p) ~> \/ owner = GuardAt(p) /\ HeldBy("worker")
                      \/ poison /\ wpc = "panicked"
    /\ NoDeadlock

\* The worker holds the mutex for the usages of a tick while the reconciler,
\* on its way out, waits in join.
C34_Witness ==
    /\ lpc = "join"
    /\ wpc = "usage_held"
    /\ owner = "usages"
    /\ ~poison

\* ---------------------------------------------------------------- C35
\* The storage benchmarks run so far.
StorRuns == Cardinality({k \in 1..Len(st_log) : st_log[k] = "sjob.run"})

\* C35: run_one runs the storage benchmark at most retries + 1 times; each
\* run comes right after an apply of the composed QoS and is followed by
\* stop_agent before anything else; the failure of run number retries + 1
\* makes run_one return an error, and so does a failure found with the
\* program-exiting flag set, whatever the number of tries, with no further
\* run; any other failure is followed by another try.
C35_Retries ==
    /\ [](/\ StorRuns <= st_retries + 1
          /\ st_tries <= st_retries + 1
          /\ \A k \in 1..Len(st_log) :
               st_log[k] = "sjob.run"
               => /\ k > 1 /\ st_log[k - 1] = "apply"
                  /\ k < Len(st_log) => st_log[k + 1] = "stop_agent")
    /\ [][(st_exiting' = st_exiting)
          => /\ (st_pc = "match" /\ st_r = "Err"
                 /\ (st_exiting \/ StorRuns = st_retries + 1))
                => (st_pc' = "done" /\ st_ret' \notin {"none", "Ok"})
             /\ (st_pc = "match" /\ st_r = "Err"
                 /\ ~st_exiting /\ StorRuns <= st_retries)
                => (st_pc' = "loop" /\ st_ret' = "none")
             /\ (st_pc = "run") => st_pc' = "stop"
             /\ (st_pc = "stop") => st_log' = Append(st_log, "stop_agent")
             /\ (st_pc = "done")
                => (st_log' = st_log /\ st_ret' = st_ret)]_vars

\* With two retries the third storage benchmark has failed and run_one has
\* returned the error, the flag not set.
C35_Witness ==
    /\ st_pc = "done"
    /\ st_retries = 2
    /\ StorRuns = 3
    /\ st_ret = "Err: failed too many times"
    /\ ~st_exiting

\* ---------------------------------------------------------------- C36
\* The calls of run_one made for the override ovr.
CallsOf(ovr) == Cardinality({k \in 1..Len(benched) : benched[k] = ovr})

\* C36: in a call of run, run_one is called at most once for each planned
\* override, and so at most as many times as there are planned overrides:
\* the loop over the plan comes to its end whatever the benchmarks return.
C36_RunOnceEach ==
    qpc \in {"loop", "done"}
    => /\ Len(benched) <= Len(job.runs)
       /\ \A k \in 1..Len(job.runs) :
            CallsOf(job.runs[k])
              <= Cardinality({j \in 1..Len(job.runs) :
                                job.runs[j] = job.runs[k]})

\* run has returned its record after one call of run_one for each of the
\* two planned overrides.
C36_Witness ==
    /\ qpc = "done"
    /\ q_ret.ok
    /\ Len(job.runs) = 2
    /\ Len(benched) = 2
    /\ benched = job.runs

\* ---------------------------------------------------------------- C37
\* C37: apply_cmd stops OOMD only in a pass that enters BenchHashd and sets
\* force_apply, and nothing else stops it; with OOMD enforcement on, a
\* maybe_reload made outside the benchmark states that finds OOMD stopped
\* applies its configuration again, so that OOMD is not left stopped while
\* the runner is Idle or Running.
C37_OomdKept ==
    [][/\ (ApplyStep /\ Did(acts', "stop_oomd"))
          => (state' = "BenchHashd" /\ force_apply')
       /\ (oomd_running /\ ~oomd_running')
          => (ApplyStep /\ Did(acts', "stop_oomd"))
       /\ (ReloadStep /\ ~InBench /\ cfg.enforce_oomd /\ ~oomd_running
           /\ last_ret' # "panic")
          => (Did(acts', "apply_oomd") /\ oomd_running')]_vars

\* The iteration that found the hashd benchmark exited ends with a
\* maybe_reload in state Idle that has applied the OOMD configuration again.
C37_Witness ==
    /\ pc = "top"
    /\ last_op = "maybe_reload"
    /\ it_start.state = "BenchHashd"
    /\ state = "Idle"
    /\ cfg.enforce_oomd
    /\ Did(acts, "apply_oomd")
    /\ oomd_running
    /\ ~force_apply

\* ---------------------------------------------------------------- C38
\* The command file still asks for the benchmark that is running: its
\* sequence number is above the one the bench file holds on disk.
StillAsked ==
    \/ state = "BenchHashd" /\ cmd.bench_hashd_seq > bench_disk.hashd_seq
    \/ state = "BenchIoCost" /\ cmd.bench_iocost_seq > bench_disk.iocost_seq

\* C38: a call of check_completions that returns an error changes neither
\* the state, which is a benchmark state, nor the benchmark's handle, and
\* the loop goes on to its unlocked section; and as long as the result is
\* not on disk and the command file still asks for the benchmark, apply_cmd
\* leaves the state and the handle alone too, so that the check_completions
\* of every later iteration handles the completion again.
C38_RetryCompletion ==
    [][/\ (CheckStep /\ last_ret' = "Err")
          => /\ InBench
             /\ state' = state
             /\ bench_hashd' = bench_hashd
             /\ bench_iocost' = bench_iocost
             /\ pc' = "unlocked"
       /\ (ApplyStep /\ StillAsked /\ last_ret' # "panic")
          => /\ state' = state
             /\ bench_hashd' = bench_hashd
             /\ bench_iocost' = bench_iocost]_vars

\* check_completions has failed on the exited hashd benchmark, for the
\* second iteration in a row, and the runner is still in BenchHashd with
\* its handle.
C38_Witness ==
    /\ pc = "unlocked"
    /\ last_op = "check_completions"
    /\ last_ret = "Err"
    /\ state = "BenchHashd"
    /\ it_start.state = "BenchHashd"
    /\ bench_hashd = "Exited"
    /\ bench # bench_disk
    /\ ~Did(acts, "update_hashd")

\* ---------------------------------------------------------------- C39
\* The entries of the service `name` in the last read_usages.
EntriesOf(name) == {e \in usages_of[1] : e[1] = name}

\* C39: in what read_usages gets from all_svcs, the entry of a benchmark
\* service has the cgroup of the Work slice joined with the unit name of
\* that same service, and the service has an entry iff the runner holds its
\* handle when read_usages is called.
C39_OwnCgroup ==
    /\ [](usages_of # None
          => \A name \in {HASHD_BENCH_SVC_NAME, IOCOST_BENCH_SVC_NAME} :
               \A e \in EntriesOf(name) :
                 e[2] = cgrp_join(Slice_Work_cgrp, name))
    /\ [][usages_of' # usages_of
          => /\ (\E e \in usages_of'[1] : e[1] = HASHD_BENCH_SVC_NAME)
                <=> bench_hashd # "None"
             /\ (\E e \in usages_of'[1] : e[1] = IOCOST_BENCH_SVC_NAME)
                <=> bench_iocost # "None"]_vars

\* read_usages was called during a hashd benchmark and read the usage of the
\* hashd-bench service from the cgroup of its unit in the Work slice.
C39_Witness ==
    /\ usages_of # None
    /\ state = "BenchHashd"
    /\ bench_hashd = "Running"
    /\ usages_of[1] =
         {<<HASHD_BENCH_SVC_NAME,
            <<"sys", "fs", "cgroup", "workload.slice",
              "rd-hashd-bench.service">>>>}
\* ---------------------------------------------------------------- C40
\* A step that is one call of fill.
FillStep == rings' = rings /\ ring_now' = ring_now /\ rdata' # rdata

\* The number of times the record of `at` is in ats.
RECURSIVE TimesIn(_, _)
TimesIn(ats, at) ==
    IF ats = <<>> THEN 0
    ELSE (IF Head(ats) = at THEN 1 ELSE 0) + TimesIn(Tail(ats), at)

\* The number of slots of data_ring, the tip included, that hold the
\* record of `at`.
SlotsOf(rd, at) ==
    Cardinality({i \in 1..Len(rd.data_ring) :
                    /\ rd.data_ring[i] # None
                    /\ TimesIn(rd.data_ring[i][1].ats, at) > 0})
    + (IF TimesIn(rd.tip.data.ats, at) > 0 THEN 1 ELSE 0)

\* Since the last clear, acc took each source record at most once, a record
\* is in at most one slot, and after a fill data_ring holds at most nr_slots
\* entries.
CountedOnce ==
    /\ \A i \in 1..Len(rdata.accs) : TimesIn(rdata.accs, rdata.accs[i]) = 1
    /\ \A i \in 1..Len(rdata.accs) : SlotsOf(rdata, rdata.accs[i]) <= 1
    /\ Len(rdata.data_ring) <= rdata.nr_slots

\* The fill just made, made again with the same stride and nr_slots from
\* the same source ring.
FillAgain == fill(rdata, rdata.stride, rdata.nr_slots, SrcRing(last_src[1]))

\* After a fill, the same fill once more changes neither data_ring nor the
\* tip.
Idempotent ==
    last_src # None =>
        /\ FillAgain.data_ring = rdata.data_ring
        /\ FillAgain.tip = rdata.tip

\* A fill with another stride, nr_slots or source cadence leaves what a
\* fill of a new ReportData leaves: nothing accumulated before is kept.
ClearsOnChange ==
    (/\ FillStep
     /\ \/ rdata'.stride # rdata.stride
        \/ rdata'.nr_slots # rdata.nr_slots
        \/ rdata'.src_cadence # rdata.src_cadence)
    => rdata' = fill(ReportData_new, rdata'.stride, rdata'.nr_slots,
                     SrcRing(last_src'[1]))

\* C40: fill is idempotent and counts each source record once. A fill
\* repeated with the same stride and nr_slots from an unchanged source ring
\* leaves data_ring and the tip as they are; over the fills from growing
\* source rings each source record is accumulated into at most one slot;
\* after every fill data_ring holds at most nr_slots entries; a fill with
\* another stride, nr_slots or source cadence clears all that was
\* accumulated before.
C40_FillOnce ==
    /\ []CountedOnce
    /\ [][FillStep => Idempotent']_vars
    /\ [][ClearsOnChange]_vars

\* Records were accumulated over two fills from a source ring that grew in
\* between, the older slots were dropped by the truncation, and the tip
\* holds a part of a stride.
C40_Witness ==
    /\ last_src # None
    /\ Len(rdata.accs) >= 3
    /\ rdata.stride = 2
    /\ rdata.nr_slots >= 1
    /\ Len(rdata.data_ring) = rdata.nr_slots
    /\ rdata.tip.nr_samples = 1
    /\ rings[last_src[1]] # <<>>
    /\ rdata.next_src_at = rings[last_src[1]][Len(rings[last_src[1]])]
                            + rdata.src_cadence
    /\ \E i \in 1..Len(rdata.accs) : SlotsOf(rdata, rdata.accs[i]) = 0


====
